---- MODULE Spec2Model ----
(***************************************************************************)
(* ColourfulWords: the Printer (lazy, memoizing, bidirectional cursor over *)
(* a single-pass generator of images), the per-pixel glyph conversion of   *)
(* the Converter, and ImageStorage (save_image, ImageLoadIterator,         *)
(* ValidImageLoadIterator).                                                *)
(*                                                                         *)
(* A String is a sequence of one-character strings; ESC stands for the     *)
(* byte 0x1B.  A Vec is a sequence; Rust index i is TLA+ index i + 1.      *)
(***************************************************************************)
EXTENDS Integers, Sequences, FiniteSets, TLC

\* ---------------------------------------------------------------- bounds
\* Items the upstream generator of a Printer yields at most.
MaxK == 2
\* Polls of the generator (and counted move_to_next_image calls) per run.
MaxCalls == 3
\* Rows of a raster handed to the per-row conversion.
MaxRows == 3
\* Columns of a raster handed to the per-row conversion.
MaxCols == 2
\* Entries of a directory walked by ImageLoadIterator.
MaxEntries == 3

\* ------------------------------------------------------------- constants
\* Settings.printing_rate_ms as main() sets it.
PrintingRate == 5

ESC == "ESC"
NL == "\n"
CR == "\r"

\* ImageStorage::CELL_SEPARATOR
CELL_SEPARATOR == " "
\* ImageStorage::IMAGE_EXTENSION
IMAGE_EXTENSION == <<"c", "w", "i">>

\* Converter::ASCII_CHARS
ASCII_CHARS == <<"@", "#", "S", "%", "&", "?", "*", "+", "-", ":", ",", ".", " ">>

\* ------------------------------------------------------- string helpers
DigitChars == <<"0", "1", "2", "3", "4", "5", "6", "7", "8", "9">>

\* Display of an unsigned integer ({} in a format string).
RECURSIVE Dec(_)
Dec(n) == IF n < 10 THEN <<DigitChars[n + 1]>>
          ELSE Dec(n \div 10) \o <<DigitChars[(n % 10) + 1]>>

\* [String]::join(sep)
RECURSIVE Join(_, _)
Join(row, sep) ==
    IF Len(row) = 0 THEN <<>>
    ELSE IF Len(row) = 1 THEN row[1]
    ELSE row[1] \o <<sep>> \o Join(Tail(row), sep)

\* The places of character c in s, ascending.
RECURSIVE Ascending(_)
Ascending(S) ==
    IF S = {} THEN <<>>
    ELSE LET m == CHOOSE x \in S : \A y \in S : x <= y
         IN  <<m>> \o Ascending(S \ {m})

Places(s, c) == Ascending({i \in 1..Len(s) : s[i] = c})

\* str::split(sep): one more piece than there are separators, empty pieces kept.
Split(s, sep) ==
    LET at == Places(s, sep)
        n == Len(at)
    IN  [k \in 1..(n + 1) |->
            SubSeq(s, IF k = 1 THEN 1 ELSE at[k - 1] + 1,
                      IF k = n + 1 THEN Len(s) ELSE at[k] - 1)]

\* One line of BufRead::lines: the terminator "\n" or "\r\n" is cut off.
StripCR(line) ==
    IF Len(line) > 0 /\ line[Len(line)] = CR THEN SubSeq(line, 1, Len(line) - 1)
    ELSE line

\* BufRead::lines over a file's bytes: every "\n" ends a line; what follows the
\* last "\n" is a line of its own when it is not empty.
Lines(s) ==
    LET pieces == Split(s, NL)
        n == Len(pieces) - 1
        terminated == [k \in 1..n |-> StripCR(pieces[k])]
    IN  IF Len(pieces[n + 1]) = 0 THEN terminated
        ELSE Append(terminated, pieces[n + 1])

\* str::rfind(c): the 1-based place of the last c, 0 for None.
RFind(s, c) ==
    LET at == {i \in 1..Len(s) : s[i] = c}
    IN  IF at = {} THEN 0 ELSE CHOOSE i \in at : \A j \in at : j <= i

\* All sequences over S of length 0..n.
SeqUpTo(S, n) == UNION {[1..k -> S] : k \in 0..n}

IsPrefix(s, t) == Len(s) <= Len(t) /\ SubSeq(t, 1, Len(s)) = s

\* ------------------------------------------------------------- Converter
\* One cell of convert_image: brightness, glyph index, styled token.
Brightness(p) == (p[1] + p[2] + p[3]) \div 3

\* A faulty CharIndex: the quotient is cut off, not rounded.
CharIndex_CutOff(p) == (Brightness(p) * (Len(ASCII_CHARS) - 1)) \div 255

CharIndex(p) == ((Brightness(p) * (Len(ASCII_CHARS) - 1)) + 127) \div 255

ConvertPixel(p) ==
    <<ESC, "[", "3", "8", ";", "2", ";">> \o Dec(p[1]) \o <<";">> \o Dec(p[2])
        \o <<";">> \o Dec(p[3]) \o <<"m", ASCII_CHARS[CharIndex(p) + 1]>>
        \o <<ESC, "[", "0", "m">>

\* The row-by-row mapping of the resized raster, rows kept in raster order.
ConvertRaster(raster) ==
    [y \in 1..Len(raster) |-> [x \in 1..Len(raster[y]) |-> ConvertPixel(raster[y][x])]]

\* Pixels of the rasters considered: white (the glyph ' ') and orange ('*').
Pixels == {<<255, 255, 255>>, <<255, 128, 0>>}

\* The resized rasters of 1..MaxRows rows by 1..MaxCols columns.
Rasters ==
    UNION {[1..h -> [1..w -> Pixels]] : h \in 1..MaxRows, w \in 1..MaxCols}

\* --------------------------------------------------------------- Printer
VARIABLES
    \* Printer.image_generator: the items still to come and how many were taken
    image_generator,
    \* Printer.coloured_images: Vec<ColouredImage>
    coloured_images,
    \* Printer.current_image: usize
    current_image,
    \* the OS clipboard's contents (NoText before the first copy)
    clipboard,
    \* the process has aborted by panic
    panicked,
    \* how often image_generator.next() has been called
    calls,
    \* the last Printer operation, its result and its returned data
    lastOp, lastRes, lastData,
    \* which of slow_print and instant_print the last operation ran ("none": neither)
    ran,
    \* the cursor, the list's length and the last operation's outcome when the
    \* last operation was called
    pre,
    \* only move_to_next_image has been called so far, and how often
    onlyNext, nextCalls

pvars == <<image_generator, coloured_images, current_image, clipboard, panicked,
           calls, lastOp, lastRes, lastData, pre, onlyNext, nextCalls, ran>>

\* ImageStorage and its iterators
VARIABLES
    \* the directory save_path = load_path: its entries in ReadDir's order
    dir,
    \* SystemTime::now() in whole seconds
    clock,
    \* the image array handed to save_image
    frame,
    \* what the last save_image returned
    saved,
    \* ImageLoadIterator.dir_iter: how many entries ReadDir has handed out
    dir_iter,
    \* the ImageLoadIterator has been moved into a ValidImageLoadIterator
    wrapped,
    \* how many items the ImageLoadIterator had yielded when it was wrapped
    rawCount,
    \* every item ImageLoadIterator::next has yielded, in order
    yielded,
    \* every image ValidImageLoadIterator::next has yielded, in order
    validOut,
    \* every error handed to Logger::log_error, in order
    log,
    \* per directory entry: how often ReadDir handed it out, how often it was read
    visits, reads,
    \* the last storage operation and what it returned
    lastIter

svars == <<dir, clock, frame, saved, dir_iter, wrapped, rawCount, yielded, validOut,
           log, visits, reads, lastIter>>

VARIABLES
    \* convert_image: the decoded image's size (original_width, original_height),
    \* the image_width asked for, and whether the build checks overflow
    decoded,
    \* convert_image: the (image_width, height) handed to resize_exact
    target,
    \* convert_image: the resized raster, rows of (r, g, b) pixels
    resized,
    \* convert_image: the image_row of every row whose closure has returned
    image_rows,
    \* the rows in the order their closures returned
    finish_order,
    \* convert_image: the converted_image collected
    converted_image,
    \* where convert_image stands
    convert_pc,
    \* Converter.image_iterator: the byte strings to come and how many were taken
    conv_iterator,
    \* Converter.coloured_images, Converter.current_image, Converter.has_any_images
    conv_images, conv_current, has_any_images,
    \* the Converter's process has aborted by panic
    conv_panicked,
    \* the last Converter operation: its name, its result, what it pulled, and
    \* the cache and cursor before it
    conv_last

cvars == <<decoded, target, resized, image_rows, finish_order, converted_image,
           convert_pc, conv_iterator, conv_images, conv_current, has_any_images,
           conv_panicked, conv_last>>

\* ColouredImage::slow_print
VARIABLES
    \* the image_array slow_print runs on
    print_image,
    \* slow_print's printing_order
    printing_order,
    \* what slow_print has put on the terminal after the blank rows: one
    \* [row, col, text] per MoveTo(col, row) and Print(text)
    terminal,
    \* where slow_print stands, and what it returned
    print_pc, print_res

wvars == <<print_image, printing_order, terminal, print_pc, print_res>>

\* ImageDownloader
VARIABLES
    \* ImageDownloader.urls and ImageDownloader.index
    urls, url_index,
    \* where next() stands: "idle" between calls, "loop" inside the while
    dl_pc,
    \* how many next() calls have started
    dl_calls,
    \* every request sent: the url's position in urls and the call that sent it
    requests,
    \* what every finished next() returned, in order
    dl_returned,
    \* how many errors next() has logged
    dl_logged

dvars == <<urls, url_index, dl_pc, dl_calls, requests, dl_returned, dl_logged>>

\* ImageStorage::new and the file system under save_path
VARIABLES
    \* what save_path is on the file system: "directory", "file" or "missing"
    save_path_kind,
    \* what ImageStorage::new returned, and what save_path was at that time
    storage,
    \* how often save_path has changed on the file system
    fs_changes

fvars == <<save_path_kind, storage, fs_changes>>

\* main
VARIABLES
    \* where main stands: "off", "select", "printer_menu", "exited", "failed"
    main_pc,
    \* the menu printer_menu runs: "none", "generator" or "load"
    mode,
    \* where the key handler stands
    handler,
    \* the last key pressed in printer_menu
    key,
    \* what the handler logged last: "none", "error" or "success"
    logged,
    \* how the process ended: "none", "Quit", "io error" or "panic"
    exit_by,
    \* how many times printer_menu has been entered
    entered

mvars == <<main_pc, mode, handler, key, logged, exit_by, entered>>

ovars == <<wvars, dvars, fvars, mvars>>

vars == <<pvars, svars, cvars, ovars>>

\* No slow_print is running.
SlowPrintIdle ==
    /\ print_image = <<>>
    /\ printing_order = <<>>
    /\ terminal = <<>>
    /\ print_pc = "idle"
    /\ print_res = "none"

\* No ImageDownloader exists.
DownloaderIdle ==
    /\ urls = <<>>
    /\ url_index = 0
    /\ dl_pc = "idle"
    /\ dl_calls = 0
    /\ requests = <<>>
    /\ dl_returned = <<>>
    /\ dl_logged = 0

\* save_path is a directory and stays one; no ImageStorage::new is observed.
FileSystemIdle ==
    /\ save_path_kind = "directory"
    /\ storage = [res |-> "none", kind |-> "none"]
    /\ fs_changes = 0

\* main is not running.
MainIdle ==
    /\ main_pc = "off"
    /\ mode = "none"
    /\ handler = "idle"
    /\ key = "none"
    /\ logged = "none"
    /\ exit_by = "none"
    /\ entered = 0

RestIdle == SlowPrintIdle /\ DownloaderIdle /\ FileSystemIdle /\ MainIdle

NoText == <<"(none)">>
NoData == [image_name |-> "(none)", image_array |-> <<>>]

\* PrinterImageData::new
PrinterImageData(image_name, image_array) ==
    [image_name |-> image_name, image_array |-> image_array]

\* ColouredImage::new
\* ColouredImage::new; reveals is no field of the struct: it counts the
\* slow_print calls on the image that returned Ok.
ColouredImageNew(image_array, index, image_name, printing_rate_ms) ==
    [image_array |-> image_array, index |-> index, image_name |-> image_name,
     is_rendered |-> FALSE, printing_rate_ms |-> printing_rate_ms, reveals |-> 0]

\* Images a generator can hand to a Printer: a converted 1 x 2 image, a loaded
\* artifact of plain one-byte cells, a grid of no rows, a grid of one empty row.
GeneratorImages ==
    { PrinterImageData("kw", ConvertRaster(<< <<(<<0, 0, 0>>), (<<255, 128, 0>>)>> >>)),
      PrinterImageData("1_x.cwi", << << <<"a">>, <<"b">> >>, << <<"c">>, <<"d">> >> >>),
      PrinterImageData("none", <<>>),
      PrinterImageData("blank", << <<>> >>) }

\* Iterator::next of the generator: Some(item) while items are left, then None.
GenNext(g) ==
    IF g.pos < Len(g.items)
    THEN [some |-> TRUE, item |-> g.items[g.pos + 1], gen |-> [g EXCEPT !.pos = @ + 1]]
    ELSE [some |-> FALSE, item |-> NoData, gen |-> g]

\* A faulty IsEmptyImage: only the number of rows is looked at.
IsEmptyImage_RowsOnly(image_array) == Len(image_array) = 0

\* ColouredImage::slow_print's guard
IsEmptyImage(image_array) == Len(image_array) = 0 \/ Len(image_array[1]) = 0

\* slow_print indexes image_array[row][col] for col < image_array[0].len()
IsRagged(image_array) ==
    \E r \in 1..Len(image_array) : Len(image_array[r]) < Len(image_array[1])

\* ColouredImage::slow_print: the results it can end with (terminal I/O may fail)
SlowPrintResults(img) ==
    IF IsEmptyImage(img.image_array) THEN {"EmptyImageError"}
    ELSE {"IoError"} \cup (IF IsRagged(img.image_array) THEN {"panic"} ELSE {"Ok"})

\* ColouredImage::instant_print: no guard, every row joined and written
InstantPrintResults(img) == {"Ok", "IoError"}

\* A faulty PrintOutcomes: the flag is set before slow_print has returned Ok.
PrintOutcomes_FlagFirst(img) ==
    IF ~img.is_rendered
    THEN {[res |-> r, ran |-> "slow_print",
           img |-> [img EXCEPT !.is_rendered = TRUE,
                               !.reveals = IF r = "Ok" THEN @ + 1 ELSE @]]
            : r \in SlowPrintResults(img)}
    ELSE {[res |-> r, ran |-> "instant_print", img |-> img]
            : r \in InstantPrintResults(img)}

\* A faulty PrintOutcomes: an image whose print failed loses its cells.
PrintOutcomes_DropCells(img) ==
    IF ~img.is_rendered
    THEN {[res |-> r, ran |-> "slow_print",
           img |-> IF r = "Ok"
                   THEN [img EXCEPT !.is_rendered = TRUE, !.reveals = @ + 1]
                   ELSE [img EXCEPT !.image_array = <<>>]]
            : r \in SlowPrintResults(img)}
    ELSE {[res |-> r, ran |-> "instant_print", img |-> img]
            : r \in InstantPrintResults(img)}

\* ColouredImage::print: the (result, function run, image afterwards) triples
\* it can end with
PrintOutcomes(img) ==
    IF ~img.is_rendered
    THEN {[res |-> r, ran |-> "slow_print",
           img |-> IF r = "Ok"
                   THEN [img EXCEPT !.is_rendered = TRUE, !.reveals = @ + 1]
                   ELSE img]
            : r \in SlowPrintResults(img)}
    ELSE {[res |-> r, ran |-> "instant_print", img |-> img]
            : r \in InstantPrintResults(img)}

\* The closure of get_clipboard_version on one cell:
\* cell[..cell.len() - 2].rfind('m'), then the one byte after the 'm'.
ClipCell(cell) ==
    IF Len(cell) < 2 THEN [res |-> "panic", text |-> <<>>]
    ELSE LET m == RFind(SubSeq(cell, 1, Len(cell) - 2), "m")
         IN  IF m = 0 THEN [res |-> "InvalidImageError", text |-> <<>>]
             ELSE IF m - 1 < Len(cell) - 2 THEN [res |-> "Ok", text |-> <<cell[m + 1]>>]
             ELSE [res |-> "InvalidImageError", text |-> <<>>]

\* try_for_each over one row: stops at the first cell that fails
RECURSIVE ClipRow(_, _)
ClipRow(row, acc) ==
    IF Len(row) = 0 THEN [res |-> "Ok", text |-> acc]
    ELSE LET c == ClipCell(row[1])
         IN  IF c.res # "Ok" THEN c ELSE ClipRow(Tail(row), acc \o c.text)

RECURSIVE ClipRows(_, _)
ClipRows(rows, acc) ==
    IF Len(rows) = 0 THEN [res |-> "Ok", text |-> acc]
    ELSE LET r == ClipRow(rows[1], acc)
         IN  IF r.res # "Ok" THEN r ELSE ClipRows(Tail(rows), Append(r.text, NL))

\* A faulty get_clipboard_version: the newline after the last row is kept.
get_clipboard_version_KeepNewline(img) ==
    IF IsEmptyImage(img.image_array) THEN [res |-> "EmptyImageError", text |-> <<>>]
    ELSE ClipRows(img.image_array, <<>>)

\* ColouredImage::get_clipboard_version
get_clipboard_version(img) ==
    IF IsEmptyImage(img.image_array) THEN [res |-> "EmptyImageError", text |-> <<>>]
    ELSE LET r == ClipRows(img.image_array, <<>>)
         IN  IF r.res # "Ok" THEN r
             ELSE [res |-> "Ok",
                   text |-> IF Len(r.text) > 0 THEN SubSeq(r.text, 1, Len(r.text) - 1)
                            ELSE r.text]

\* A faulty add_image_and_set_current: The cursor is set one past the pushed image.
add_image_and_set_current_OnePast(list, image_data) ==
    [list |-> Append(list, ColouredImageNew(image_data.image_array, Len(list),
                                             image_data.image_name, PrintingRate)),
     cur |-> Len(list) + 1]

\* A faulty add_image_and_set_current: The new image is inserted at the front of the list.
add_image_and_set_current_Front(list, image_data) ==
    [list |-> <<ColouredImageNew(image_data.image_array, Len(list),
                                 image_data.image_name, PrintingRate)>> \o list,
     cur |-> Len(list)]

\* Printer::add_image_and_set_current: the list and the cursor afterwards
add_image_and_set_current(list, image_data) ==
    LET new_image_index == Len(list)
    IN  [list |-> Append(list, ColouredImageNew(image_data.image_array, new_image_index,
                                                  image_data.image_name, PrintingRate)),
         cur |-> new_image_index]

\* A faulty BehindFrontier: move_to_next_image polls the generator on every call.
BehindFrontier_AlwaysPoll(cur, list) == FALSE

\* A faulty BehindFrontier: The frontier test is off by one: cur < len.
BehindFrontier_OffByOne(cur, list) == cur < Len(list)

\* move_to_next_image: the cursor is behind the last materialized image
BehindFrontier(cur, list) == cur < Len(list) - 1

\* A faulty ExhaustedError: One error for every exhausted poll, as Converter::move_to_next_image has it.
ExhaustedError_OneKind(list) == "NoImageLeftError"

\* move_to_next_image: the error when the generator returns None
ExhaustedError(list) ==
    IF Len(list) = 0 THEN "NoImagesRegisteredError" ELSE "NoImageLeftError"

\* A faulty AtStart: The test for index 0 is missing.
AtStart_Never(cur) == FALSE

\* move_to_previous_image: the cursor is on the first image
AtStart(cur) == cur = 0

\* A faulty CurrentImage: The newest image is returned, not the one at the cursor.
CurrentImage_Newest(list, cur) == list[Len(list)]

\* self.coloured_images[self.current_image], for an index in bounds
CurrentImage(list, cur) == list[cur + 1]

Snapshot ==
    [current_image |-> current_image, len |-> Len(coloured_images),
     lastOp |-> lastOp, lastRes |-> lastRes]

\* What every operation records about itself.
CalledRan(op, res, data, path) ==
    /\ lastOp' = op
    /\ lastRes' = res
    /\ lastData' = data
    /\ ran' = path
    /\ pre' = Snapshot
    /\ panicked' = (res = "panic")
    /\ onlyNext' = (onlyNext /\ op = "next")
    /\ nextCalls' = IF onlyNext /\ op = "next" THEN nextCalls + 1 ELSE nextCalls

Called(op, res, data) == CalledRan(op, res, data, "none")

\* Printer::get_current_image_data
Printer_get_current_image_data ==
    /\ ~panicked
    /\ IF Len(coloured_images) = 0
       THEN Called("get", "NoImagesRegisteredError", NoData)
       ELSE IF current_image >= Len(coloured_images)
       THEN Called("get", "panic", NoData)
       ELSE LET img == CurrentImage(coloured_images, current_image)
            IN  Called("get", "Ok", PrinterImageData(img.image_name, img.image_array))
    /\ UNCHANGED <<image_generator, coloured_images, current_image, clipboard, calls>>

get_current_image_data == Printer_get_current_image_data /\ UNCHANGED <<svars, cvars, ovars>>

\* A faulty PrintPolls: every print asks the generator for an image.
PrintPolls_Always(list) == TRUE

\* print_current_image's test before image_generator.next(): the list is empty
PrintPolls(list) == Len(list) = 0

\* Printer::print_current_image
Printer_print_current_image ==
    /\ ~panicked
    /\ LET polled == PrintPolls(coloured_images)
           r == GenNext(image_generator)
           added == add_image_and_set_current(coloured_images, r.item)
           list1 == IF polled /\ r.some THEN added.list ELSE coloured_images
           cur1 == IF polled /\ r.some THEN added.cur ELSE current_image
       IN  /\ polled => calls < MaxCalls
           /\ calls' = IF polled THEN calls + 1 ELSE calls
           /\ image_generator' = IF polled THEN r.gen ELSE image_generator
           /\ IF polled /\ ~r.some
              THEN /\ Called("print", "NoImagesRegisteredError", NoData)
                   /\ UNCHANGED <<coloured_images, current_image>>
              ELSE IF cur1 >= Len(list1)
              THEN /\ Called("print", "panic", NoData)
                   /\ coloured_images' = list1
                   /\ current_image' = cur1
              ELSE \E o \in PrintOutcomes(CurrentImage(list1, cur1)) :
                   /\ CalledRan("print", o.res, NoData, o.ran)
                   /\ coloured_images' = [list1 EXCEPT ![cur1 + 1] = o.img]
                   /\ current_image' = cur1
    /\ UNCHANGED clipboard

print_current_image == Printer_print_current_image /\ UNCHANGED <<svars, cvars, ovars>>

\* Printer::move_to_previous_image
Printer_move_to_previous_image ==
    /\ ~panicked
    /\ IF Len(coloured_images) = 0
       THEN /\ Called("prev", "NoImagesRegisteredError", NoData)
            /\ UNCHANGED current_image
       ELSE IF AtStart(current_image)
       THEN /\ Called("prev", "NoImageLeftError", NoData)
            /\ UNCHANGED current_image
       ELSE /\ Called("prev", "Ok", NoData)
            /\ current_image' = current_image - 1
    /\ UNCHANGED <<image_generator, coloured_images, clipboard, calls>>

move_to_previous_image == Printer_move_to_previous_image /\ UNCHANGED <<svars, cvars, ovars>>

\* Printer::move_to_next_image
Printer_move_to_next_image ==
    /\ ~panicked
    /\ onlyNext => nextCalls < MaxCalls
    /\ IF Len(coloured_images) # 0 /\ BehindFrontier(current_image, coloured_images)
       THEN /\ Called("next", "Ok", NoData)
            /\ current_image' = current_image + 1
            /\ UNCHANGED <<image_generator, coloured_images, calls>>
       ELSE LET r == GenNext(image_generator)
                added == add_image_and_set_current(coloured_images, r.item)
            IN  /\ calls < MaxCalls
                /\ calls' = calls + 1
                /\ image_generator' = r.gen
                /\ IF r.some
                   THEN /\ Called("next", "Ok", NoData)
                        /\ coloured_images' = added.list
                        /\ current_image' = added.cur
                   ELSE /\ Called("next", ExhaustedError(coloured_images), NoData)
                        /\ UNCHANGED <<coloured_images, current_image>>
    /\ UNCHANGED clipboard

move_to_next_image == Printer_move_to_next_image /\ UNCHANGED <<svars, cvars, ovars>>

\* Printer::copy_current_image_to_clipboard: ClipboardContext::new() and set_contents
\* fail or not as the OS decides; the text is computed between the two.
Printer_copy_current_image_to_clipboard ==
    /\ ~panicked
    /\ IF Len(coloured_images) = 0
       THEN /\ Called("copy", "NoImagesRegisteredError", NoData)
            /\ UNCHANGED clipboard
       ELSE \E ctx_ok \in BOOLEAN, set_ok \in BOOLEAN :
            IF ~ctx_ok
            THEN /\ Called("copy", "ClipboardError", NoData)
                 /\ UNCHANGED clipboard
            ELSE IF current_image >= Len(coloured_images)
            THEN /\ Called("copy", "panic", NoData)
                 /\ UNCHANGED clipboard
            ELSE LET t == get_clipboard_version(CurrentImage(coloured_images, current_image))
                 IN  IF t.res # "Ok"
                     THEN /\ Called("copy", t.res, NoData)
                          /\ UNCHANGED clipboard
                     ELSE IF ~set_ok
                     THEN /\ Called("copy", "ClipboardError", NoData)
                          /\ UNCHANGED clipboard
                     ELSE /\ Called("copy", "Ok", NoData)
                          /\ clipboard' = t.text
    /\ UNCHANGED <<image_generator, coloured_images, current_image, calls>>

copy_current_image_to_clipboard == Printer_copy_current_image_to_clipboard /\ UNCHANGED <<svars, cvars, ovars>>

\* Printer::new over a generator
PrinterNew(items) ==
    /\ image_generator = [items |-> items, pos |-> 0]
    /\ coloured_images = <<>>
    /\ current_image = 0
    /\ clipboard = NoText
    /\ panicked = FALSE
    /\ calls = 0
    /\ lastOp = "none"
    /\ lastRes = "none"
    /\ lastData = NoData
    /\ ran = "none"
    /\ pre = [current_image |-> 0, len |-> 0, lastOp |-> "none", lastRes |-> "none"]
    /\ onlyNext = TRUE
    /\ nextCalls = 0

\* Printer::new over a generator of at most MaxK images
PrinterInit == \E items \in SeqUpTo(GeneratorImages, MaxK) : PrinterNew(items)

PrinterNext ==
    \/ move_to_next_image
    \/ move_to_previous_image
    \/ print_current_image
    \/ get_current_image_data
    \/ copy_current_image_to_clipboard

\* ---------------------------------------------------------- ImageStorage
\* Bound of the clock.
MaxClock == 2

NoName == <<>>

\* Path::extension of a file name: what follows the last '.', None (here NoName)
\* when there is no '.' or only a leading one.
Extension(name) ==
    LET dot == RFind(name, ".")
    IN  IF dot <= 1 THEN NoName ELSE SubSeq(name, dot + 1, Len(name))

\* ImageStorage::get_image_name at time now
get_image_name(image_name, now) ==
    Dec(now) \o <<"_">> \o image_name \o <<".">> \o IMAGE_EXTENSION

\* Path::exists for a path directly inside the directory
Exists(d, name) == \E i \in 1..Len(d) : d[i].kind # "error" /\ d[i].name = name

\* The bytes save_image writes: writeln! of every row joined by CELL_SEPARATOR
RECURSIVE FileBytes(_)
FileBytes(image_array) ==
    IF Len(image_array) = 0 THEN <<>>
    ELSE Join(image_array[1], CELL_SEPARATOR) \o <<NL>> \o FileBytes(Tail(image_array))

StorageItem(res, path, image) == [res |-> res, path |-> path, image |-> image]

\* A faulty load_image: the width of a later line is not compared with the first's.
load_image_NoWidthCheck(entry) ==
    IF entry.kind \in {"unreadable", "subdir"} THEN {StorageItem("IoError", entry.name, NoData)}
    ELSE LET lines == Lines(entry.content)
         IN  IF Len(lines) = 0 THEN {StorageItem("LoadError", entry.name, NoData)}
             ELSE {StorageItem("Ok", entry.name, PrinterImageData(entry.name,
                        [i \in 1..Len(lines) |-> Split(lines[i], CELL_SEPARATOR)]))}

\* ImageLoadIterator::load_image: the results it can return (a file that cannot
\* be opened and a directory, whose read fails: IoError). The lines after the
\* first go through par_bridge(), which hands them on in the order the workers
\* take them: any order.
load_image(entry) ==
    IF entry.kind \in {"unreadable", "subdir"} THEN {StorageItem("IoError", entry.name, NoData)}
    ELSE LET lines == Lines(entry.content)
         IN  IF Len(lines) = 0 THEN {StorageItem("LoadError", entry.name, NoData)}
             ELSE LET first_line == Split(lines[1], CELL_SEPARATOR)
                      expected_length == Len(first_line)
                      rest == [i \in 1..(Len(lines) - 1) |-> Split(lines[i + 1], CELL_SEPARATOR)]
                  IN  IF \E i \in 1..Len(rest) : Len(rest[i]) # expected_length
                      THEN {StorageItem("LoadError", entry.name, NoData)}
                      ELSE {StorageItem("Ok", entry.name,
                                PrinterImageData(entry.name,
                                    <<first_line>> \o [i \in 1..Len(rest) |-> rest[order[i]]]))
                              : order \in Permutations(1..Len(rest))}

\* A faulty IsCandidate: any file name that ends in the extension's letters counts.
IsCandidate_Suffix(entry) ==
    /\ entry.kind # "error"
    /\ Len(entry.name) >= Len(IMAGE_EXTENSION)
    /\ SubSeq(entry.name, Len(entry.name) - Len(IMAGE_EXTENSION) + 1, Len(entry.name))
         = IMAGE_EXTENSION

\* ImageLoadIterator::next: the entry is Ok and its extension is IMAGE_EXTENSION
IsCandidate(entry) ==
    /\ entry.kind # "error"
    /\ Extension(entry.name) # NoName
    /\ Extension(entry.name) = IMAGE_EXTENSION

\* ImageLoadIterator::next: the place of the first candidate after pos, 0 for none
RECURSIVE NextCandidate(_, _)
NextCandidate(d, pos) ==
    IF pos >= Len(d) THEN 0
    ELSE IF IsCandidate(d[pos + 1]) THEN pos + 1
    ELSE NextCandidate(d, pos + 1)

\* A faulty IterNext: a file that fails to load ends the walk of the directory.
IterNext_StopOnErr(d, pos) ==
    LET j == NextCandidate(d, pos)
    IN  IF j = 0
        THEN {[pos |-> Len(d), read |-> 0, item |-> StorageItem("None", NoName, NoData)]}
        ELSE {[pos |-> IF it.res = "Ok" THEN j ELSE Len(d), read |-> j, item |-> it]
                : it \in load_image(d[j])}

\* ImageLoadIterator::next from dir_iter = pos: the entries ReadDir hands out and
\* the results the call can return (None: res "None")
IterNext(d, pos) ==
    LET j == NextCandidate(d, pos)
    IN  IF j = 0
        THEN {[pos |-> Len(d), read |-> 0, item |-> StorageItem("None", NoName, NoData)]}
        ELSE {[pos |-> j, read |-> j, item |-> it] : it \in load_image(d[j])}

Bump(count, from, to) ==
    [i \in DOMAIN count |-> IF from < i /\ i <= to THEN count[i] + 1 ELSE count[i]]

\* What lies at a path below the directory d, the path being its components:
\* the kind of the entry, "absent" for none. Only a directory (kind "subdir",
\* its entries in content) has anything below it.
RECURSIVE KindAt(_, _)
KindAt(d, path) ==
    LET hits == {i \in 1..Len(d) : d[i].kind # "error" /\ d[i].name = path[1]}
    IN  IF hits = {} THEN "absent"
        ELSE LET e == d[CHOOSE i \in hits : TRUE]
             IN  IF Len(path) = 1 THEN e.kind
                 ELSE IF e.kind = "subdir" THEN KindAt(e.content, Tail(path))
                 ELSE "absent"

\* Path::exists
PathExists(d, path) == KindAt(d, path) # "absent"

\* File::create succeeds only below an existing directory and not on a directory
CanCreate(d, path) ==
    /\ Len(path) = 1 \/ KindAt(d, SubSeq(path, 1, Len(path) - 1)) = "subdir"
    /\ KindAt(d, path) \in {"absent", "file"}

\* File::create and the writes after it: a file that exists is truncated and
\* written anew, one that does not is added to its directory.
RECURSIVE WriteFile(_, _, _)
WriteFile(d, path, content) ==
    IF Len(path) = 1
    THEN IF Exists(d, path[1])
         THEN [i \in 1..Len(d) |->
                 IF d[i].kind # "error" /\ d[i].name = path[1]
                 THEN [d[i] EXCEPT !.content = content] ELSE d[i]]
         ELSE Append(d, [name |-> path[1], kind |-> "file", content |-> content])
    ELSE [i \in 1..Len(d) |->
            IF d[i].kind = "subdir" /\ d[i].name = path[1]
            THEN [d[i] EXCEPT !.content = WriteFile(@, Tail(path), content)]
            ELSE d[i]]

\* A faulty FinalPaths: the candidate path is used whether it exists or not.
FinalPaths_NoWait(d, path, image_name, now) == {[path |-> path, now |-> now]}

\* The while loop of save_image from the candidate path at time now: while the
\* path exists, sleep 200 ms (the second may pass) and path = path.join(a new
\* file name): the new name goes below the path that exists. The (path, time)
\* pairs the loop can end with.
RECURSIVE FinalPaths(_, _, _, _)
FinalPaths(d, path, image_name, now) ==
    IF ~PathExists(d, path) THEN {[path |-> path, now |-> now]}
    ELSE UNION {FinalPaths(d, Append(path, get_image_name(image_name, later)),
                           image_name, later)
                  : later \in {t \in {now, now + 1} : t <= MaxClock}}

\* ImageStorage::save_image(image_name, &frame). File::create and every write
\* fail or not as the OS decides (io; written: the rows on disk when a write
\* failed); Ok carries the first name, whatever path the loop ended with.
Storage_save_image(image_name) ==
    /\ Len(dir) < MaxEntries
    /\ LET new_image_name == get_image_name(image_name, clock)
       IN  IF save_path_kind # "directory"
           THEN \* nothing exists below save_path and File::create fails
                /\ saved' = [res |-> "SaveError", name |-> NoName,
                             path |-> <<new_image_name>>, waits |-> 0,
                             io_ok |-> FALSE, returned |-> saved.returned]
                /\ UNCHANGED <<clock, dir, visits, reads>>
           ELSE
           \E fin \in FinalPaths(dir, <<new_image_name>>, image_name, clock) :
           \E io \in {"create fails", "write fails", "ok"} : \E written \in 0..Len(frame) :
             LET waits == Len(fin.path) - 1
                 io_ok == io = "ok"
                 created == io # "create fails" /\ CanCreate(dir, fin.path)
                 rows == IF io_ok THEN frame ELSE SubSeq(frame, 1, written)
                 ok == io_ok /\ created
             IN  /\ clock' = fin.now
                 /\ dir' = IF created THEN WriteFile(dir, fin.path, FileBytes(rows))
                           ELSE dir
                 /\ visits' = IF Len(dir') > Len(dir) THEN Append(visits, 0) ELSE visits
                 /\ reads' = IF Len(dir') > Len(dir) THEN Append(reads, 0) ELSE reads
                 /\ saved' = [res |-> IF ok THEN "Ok" ELSE "SaveError",
                              name |-> IF ok THEN new_image_name ELSE NoName,
                              path |-> fin.path,
                              waits |-> waits,
                              io_ok |-> io_ok,
                              returned |-> IF ok THEN saved.returned \cup {new_image_name}
                                           ELSE saved.returned]
    /\ lastIter' = "save"
    /\ UNCHANGED <<dir_iter, wrapped, rawCount, yielded, validOut, log>>

save_image(image_name) ==
    Storage_save_image(image_name) /\ UNCHANGED <<frame, pvars, cvars, ovars>>

SaveImage == \E image_name \in {<<"k", "w">>} : save_image(image_name)

\* A second passes.
Tick ==
    /\ UNCHANGED <<pvars, cvars, ovars>>
    /\ clock < MaxClock
    /\ clock' = clock + 1
    /\ lastIter' = "tick"
    /\ UNCHANGED <<dir, frame, saved, dir_iter, wrapped, rawCount, yielded, validOut,
                   log, visits, reads>>

\* <ImageLoadIterator as Iterator>::next, called on the unwrapped iterator
LoadNext ==
    /\ UNCHANGED <<pvars, cvars, ovars>>
    /\ ~wrapped
    /\ \E r \in IterNext(dir, dir_iter) :
        /\ visits' = Bump(visits, dir_iter, r.pos)
        /\ reads' = Bump(reads, r.read - 1, r.read)
        /\ dir_iter' = r.pos
        /\ yielded' = IF r.item.res = "None" THEN yielded ELSE Append(yielded, r.item)
        /\ lastIter' = IF r.item.res = "None" THEN "None" ELSE "Some"
    /\ UNCHANGED <<dir, clock, frame, saved, wrapped, rawCount, validOut, log>>

\* A faulty WrapIntoValid: the directory is opened anew.
WrapIntoValid_Rescan(pos) == 0

\* ImageLoadIterator::wrap_into_valid: the iterator itself is moved
WrapIntoValid(pos) == pos

Wrap ==
    /\ UNCHANGED <<pvars, cvars, ovars>>
    /\ ~wrapped
    /\ wrapped' = TRUE
    /\ dir_iter' = WrapIntoValid(dir_iter)
    /\ rawCount' = Len(yielded)
    /\ lastIter' = "wrap"
    /\ UNCHANGED <<dir, clock, frame, saved, yielded, validOut, log, visits, reads>>

\* The loop of ValidImageLoadIterator::next from dir_iter = pos: the runs of
\* inner results it can see, each ending with the first Ok or with None
RECURSIVE ValidRuns(_, _, _)
ValidRuns(d, pos, seen) ==
    UNION { IF r.item.res \in {"Ok", "None"}
            THEN {[pos |-> r.pos, items |-> Append(seen, [read |-> r.read, item |-> r.item])]}
            ELSE ValidRuns(d, r.pos, Append(seen, [read |-> r.read, item |-> r.item]))
          : r \in IterNext(d, pos) }

RECURSIVE BumpAll(_, _)
BumpAll(count, run) ==
    IF Len(run) = 0 THEN count
    ELSE BumpAll(Bump(count, run[1].read - 1, run[1].read), Tail(run))

IsErr(x) == x.item.res \notin {"Ok", "None"}
IsSome(x) == x.item.res # "None"
ItemOf(run) == [i \in 1..Len(run) |-> run[i].item]

\* <ValidImageLoadIterator as Iterator>::next
ValidNext ==
    /\ UNCHANGED <<pvars, cvars, ovars>>
    /\ wrapped
    /\ \E run \in ValidRuns(dir, dir_iter, <<>>) :
        LET last == run.items[Len(run.items)].item
        IN  /\ visits' = Bump(visits, dir_iter, run.pos)
            /\ reads' = BumpAll(reads, run.items)
            /\ dir_iter' = run.pos
            /\ yielded' = yielded \o ItemOf(SelectSeq(run.items, IsSome))
            /\ log' = log \o ItemOf(SelectSeq(run.items, IsErr))
            /\ validOut' = IF last.res = "Ok" THEN Append(validOut, last.image)
                           ELSE validOut
            /\ lastIter' = IF last.res = "Ok" THEN "ValidSome" ELSE "ValidNone"
    /\ UNCHANGED <<dir, clock, frame, saved, wrapped, rawCount>>

\* No storage operation has run: the values the storage variables start with.
StorageStart ==
    /\ clock = 1
    /\ saved = [res |-> "none", name |-> NoName, path |-> <<>>, waits |-> 0,
                io_ok |-> TRUE, returned |-> {}]
    /\ dir_iter = 0
    /\ wrapped = FALSE
    /\ rawCount = 0
    /\ yielded = <<>>
    /\ validOut = <<>>
    /\ log = <<>>
    /\ visits = [i \in 1..Len(dir) |-> 0]
    /\ reads = [i \in 1..Len(dir) |-> 0]
    /\ lastIter = "none"

\* ---------------------------------------------------------- Converter
\* No conversion has started.
ConvertIdle ==
    /\ decoded = [original_width |-> 1, original_height |-> <<1, 0, 0, 0>>,
                  image_width |-> <<1, 0, 0, 0>>, overflow_checks |-> FALSE]
    /\ target = [res |-> "none", width |-> <<>>, height |-> <<>>]
    /\ resized = <<>>
    /\ image_rows = <<>>
    /\ finish_order = <<>>
    /\ converted_image = <<>>
    /\ convert_pc = "idle"

\* Converter::new over an image_iterator
ConverterNew(items) ==
    /\ conv_iterator = [items |-> items, pos |-> 0]
    /\ conv_images = <<>>
    /\ conv_current = 0
    /\ has_any_images = FALSE
    /\ conv_panicked = FALSE
    /\ conv_last = [op |-> "none", res |-> "none", pulled |-> "none",
                    images |-> <<>>, current |-> 0]

\* No Converter in use.
ConverterIdle == ConvertIdle /\ ConverterNew(<<>>)

\* ------------------------------------------- convert_image: the height
\* A u32 is kept as its four bytes, least significant first, so that the
\* product of two of them can be formed exactly, beyond 32 bits.
U32(hi16, lo16) == <<lo16 % 256, lo16 \div 256, hi16 % 256, hi16 \div 256>>

ByteAt(a, i) == IF i \in 1..Len(a) THEN a[i] ELSE 0

\* The sum of the byte products that fall on byte k of a * b.
Column(a, b, k) ==
    ByteAt(a, 1) * ByteAt(b, k) + ByteAt(a, 2) * ByteAt(b, k - 1)
        + ByteAt(a, 3) * ByteAt(b, k - 2) + ByteAt(a, 4) * ByteAt(b, k - 3)

RECURSIVE Carry(_, _, _)
Carry(cols, i, c) ==
    IF i > Len(cols) THEN <<>>
    ELSE <<(cols[i] + c) % 256>> \o Carry(cols, i + 1, (cols[i] + c) \div 256)

\* a * b in full: eight bytes
Product(a, b) == Carry([k \in 1..8 |-> Column(a, b, k)], 1, 0)

\* n / w, floor, for a divisor w below 2^23: the bytes from the top down
RECURSIVE DivFrom(_, _, _, _)
DivFrom(n, w, i, rem) ==
    IF i = 0 THEN <<>>
    ELSE LET cur == rem * 256 + n[i]
         IN  DivFrom(n, w, i - 1, cur % w) \o <<cur \div w>>

Quotient(n, w) == DivFrom(n, w, Len(n), 0)

IsZero(n) == \A i \in 1..Len(n) : n[i] = 0

\* u32::max(1)
Max1(n) == IF IsZero(n) THEN [i \in 1..Len(n) |-> IF i = 1 THEN 1 ELSE 0] ELSE n

\* let height = original_height * image_width / original_width;
\* let height = height.max(1);  in u32: the product wraps at 2^32, or panics
\* where the build checks overflow.
HeightOf(d) ==
    LET product == Product(d.original_height, d.image_width)
    IN  IF ~IsZero(SubSeq(product, 5, 8)) /\ d.overflow_checks
        THEN [res |-> "panic", width |-> <<>>, height |-> <<>>]
        ELSE [res |-> "Ok", width |-> d.image_width,
              height |-> Max1(Quotient(SubSeq(product, 1, 4), d.original_width))]

\* convert_image from the decoded image to the call of resize_exact
ComputeSize ==
    /\ convert_pc = "decoded"
    /\ target' = HeightOf(decoded)
    /\ convert_pc' = IF target'.res = "Ok" THEN "sized" ELSE "panicked"
    /\ UNCHANGED <<decoded, resized, image_rows, finish_order, converted_image,
                   conv_iterator, conv_images, conv_current, has_any_images,
                   conv_panicked, conv_last>>
    /\ UNCHANGED <<pvars, svars, ovars>>

\* The sizes considered: small ones, 2^16, 2^16 + 1 and u32::MAX.
OriginalWidths == {1, 2, 3, 65536}
OriginalHeights ==
    {U32(0, 1), U32(0, 2), U32(0, 3), U32(1, 0), U32(1, 1), U32(65535, 65535)}
ImageWidths == {U32(0, 1), U32(0, 2), U32(0, 3), U32(1, 0), U32(65535, 65535)}

\* --------------------------------------------- convert_image: the rows
\* The closure of the parallel map for row y: its own image_row, a cell for
\* every pixel of the row; it writes nothing else.
RowOf(raster, y) == [x \in 1..Len(raster[y]) |-> ConvertPixel(raster[y][x])]

\* One closure returns, whichever worker ran it and whenever.
RowClosure(y) ==
    /\ convert_pc = "rows"
    /\ y \notin DOMAIN image_rows
    /\ image_rows' = [r \in DOMAIN image_rows \cup {y} |->
                        IF r = y THEN RowOf(resized, y) ELSE image_rows[r]]
    /\ finish_order' = Append(finish_order, y)
    /\ UNCHANGED <<decoded, target, resized, converted_image, convert_pc,
                   conv_iterator, conv_images, conv_current, has_any_images,
                   conv_panicked, conv_last>>
    /\ UNCHANGED <<pvars, svars, ovars>>

RowClosures == \E y \in 1..Len(resized) : RowClosure(y)

\* A faulty CollectRows: the rows are taken as they finished.
CollectRows_AsFinished(rows, order) == [i \in 1..Len(order) |-> rows[order[i]]]

\* collect() of the indexed parallel iterator over 0..height: into a Vec by
\* index, however the closures finished.
CollectRows(rows, order) == [i \in 1..Len(order) |-> rows[i]]

Collect ==
    /\ convert_pc = "rows"
    /\ DOMAIN image_rows = 1..Len(resized)
    /\ converted_image' = CollectRows(image_rows, finish_order)
    /\ convert_pc' = "done"
    /\ UNCHANGED <<decoded, target, resized, image_rows, finish_order,
                   conv_iterator, conv_images, conv_current, has_any_images,
                   conv_panicked, conv_last>>
    /\ UNCHANGED <<pvars, svars, ovars>>

\* Pixels of every brightness 0..255, for rasters of one pixel.
GlyphPixels == {<<r, g, b>> : r \in 0..255, g \in {0, 128, 255}, b \in {0, 255}}

GlyphRasters == {<< <<p>> >> : p \in GlyphPixels}

\* ------------------------------------------------- Converter: the cache
\* What the image_iterator can hand out: bytes that are no image, and the bytes
\* of two images, each standing for the raster it is resized to.
JunkBytes == [decodable |-> FALSE, raster |-> <<>>]
ImageBytes(pixel) == [decodable |-> TRUE, raster |-> << <<pixel>> >>]
UpstreamBytes == {JunkBytes} \cup {ImageBytes(p) : p \in Pixels}

\* Converter::convert_image(image_bytes, image_width): load_from_memory(..)
\* .expect(..) panics on bytes that do not decode; else the converted raster.
convert_image(image_bytes) ==
    IF ~image_bytes.decodable THEN [res |-> "panic", image_array |-> <<>>]
    ELSE [res |-> "Ok", image_array |-> ConvertRaster(image_bytes.raster)]

ConverterCalled(op, res, pulled) ==
    conv_last' = [op |-> op, res |-> res, pulled |-> pulled,
                  images |-> conv_images, current |-> conv_current]

\* Converter::move_to_next_image: image_iterator.next(), then add_image, which
\* moves the cursor before it converts and pushes.
Converter_move_to_next_image ==
    /\ ~conv_panicked
    /\ LET n == GenNext(conv_iterator)
       IN  IF ~n.some
           THEN /\ ConverterCalled("next", "NoImageLeftError", "none")
                /\ UNCHANGED <<conv_iterator, conv_images, conv_current, has_any_images,
                               conv_panicked>>
           ELSE LET converted == convert_image(n.item)
                IN  /\ conv_iterator' = n.gen
                    /\ has_any_images' = TRUE
                    /\ conv_current' = IF has_any_images THEN conv_current + 1
                                       ELSE conv_current
                    /\ conv_images' = IF converted.res = "Ok"
                                      THEN Append(conv_images, converted.image_array)
                                      ELSE conv_images
                    /\ conv_panicked' = (converted.res = "panic")
                    /\ ConverterCalled("next", converted.res,
                                       IF n.item.decodable THEN "image" ELSE "junk")
    /\ UNCHANGED <<decoded, target, resized, image_rows, finish_order, converted_image,
                   convert_pc>>
    /\ UNCHANGED <<pvars, svars, ovars>>

\* Converter::move_to_previous_image
Converter_move_to_previous_image ==
    /\ ~conv_panicked
    /\ IF ~has_any_images
       THEN ConverterCalled("previous", "NoImagesRegisteredError", "none")
              /\ UNCHANGED conv_current
       ELSE IF conv_current = 0
       THEN ConverterCalled("previous", "NoImageLeftError", "none")
              /\ UNCHANGED conv_current
       ELSE ConverterCalled("previous", "Ok", "none")
              /\ conv_current' = conv_current - 1
    /\ UNCHANGED <<conv_iterator, conv_images, has_any_images, conv_panicked>>
    /\ UNCHANGED <<decoded, target, resized, image_rows, finish_order, converted_image,
                   convert_pc>>
    /\ UNCHANGED <<pvars, svars, ovars>>

\* Converter::print_current_image: nothing without images; slow_print for the
\* newest image, instant_print for any other; print! and flush().unwrap()
\* panic when stdout fails.
Converter_print_current_image ==
    /\ ~conv_panicked
    /\ \E stdout_ok \in BOOLEAN :
        IF ~has_any_images
        THEN ConverterCalled("print", "nothing", "none") /\ UNCHANGED conv_panicked
        ELSE IF ~stdout_ok \/ conv_current >= Len(conv_images)
        THEN ConverterCalled("print", "panic", "none") /\ conv_panicked' = TRUE
        ELSE ConverterCalled("print",
                             IF conv_current = Len(conv_images) - 1 THEN "slow_print"
                             ELSE "instant_print", "none")
               /\ UNCHANGED conv_panicked
    /\ UNCHANGED <<conv_iterator, conv_images, conv_current, has_any_images>>
    /\ UNCHANGED <<decoded, target, resized, image_rows, finish_order, converted_image,
                   convert_pc>>
    /\ UNCHANGED <<pvars, svars, ovars>>

\* ---------------------------------------------------------- specifications
\* The Printer over a generator; storage idle.
SpecPrinterInit ==
    /\ PrinterInit /\ dir = <<>> /\ frame = <<>> /\ StorageStart /\ ConverterIdle
    /\ RestIdle

SpecPrinter == SpecPrinterInit /\ [][PrinterNext]_vars

PrinterIdle ==
    PrinterInit /\ image_generator.items = <<>> /\ ConverterIdle /\ RestIdle

\* save_image of one converted frame into an empty directory, then a load of
\* that directory.
SpecCodecInit ==
    /\ PrinterIdle
    /\ dir = <<>>
    /\ frame \in {ConvertRaster(r) : r \in Rasters}
    /\ StorageStart

SpecCodecNext ==
    \/ SaveImage
    \/ Tick
    \/ LoadNext

SpecCodec == SpecCodecInit /\ [][SpecCodecNext]_vars

\* Printer and storage idle.
OthersIdle ==
    /\ PrinterInit /\ image_generator.items = <<>>
    /\ dir = <<>> /\ frame = <<>> /\ StorageStart
    /\ RestIdle

\* convert_image of a decoded image, up to the size it asks resize_exact for.
SpecResizeInit ==
    /\ OthersIdle
    /\ ConverterNew(<<>>)
    /\ decoded \in [original_width : OriginalWidths, original_height : OriginalHeights,
                    image_width : ImageWidths, overflow_checks : BOOLEAN]
    /\ target = [res |-> "none", width |-> <<>>, height |-> <<>>]
    /\ resized = <<>>
    /\ image_rows = <<>>
    /\ finish_order = <<>>
    /\ converted_image = <<>>
    /\ convert_pc = "decoded"

SpecResizeNext == ComputeSize

SpecResize == SpecResizeInit /\ [][SpecResizeNext]_vars

\* convert_image from the resized raster on: the closures of the rows in any
\* order, then the collect.
SpecRowsInit ==
    /\ OthersIdle
    /\ ConverterNew(<<>>)
    /\ decoded = [original_width |-> 1, original_height |-> <<1, 0, 0, 0>>,
                  image_width |-> <<1, 0, 0, 0>>, overflow_checks |-> FALSE]
    /\ target = [res |-> "none", width |-> <<>>, height |-> <<>>]
    /\ resized \in Rasters \cup GlyphRasters
    /\ image_rows = <<>>
    /\ finish_order = <<>>
    /\ converted_image = <<>>
    /\ convert_pc = "rows"

SpecRowsNext ==
    \/ RowClosures
    \/ Collect

SpecRows == SpecRowsInit /\ [][SpecRowsNext]_vars

\* Converter::new over an upstream of at most MaxK + 1 byte strings, then its
\* operations in any order.
SpecConverterInit ==
    /\ OthersIdle
    /\ ConvertIdle
    /\ \E items \in SeqUpTo(UpstreamBytes, MaxK + 1) : ConverterNew(items)

SpecConverterNext ==
    \/ Converter_move_to_next_image
    \/ Converter_move_to_previous_image
    \/ Converter_print_current_image

SpecConverter == SpecConverterInit /\ [][SpecConverterNext]_vars

\* Cell tokens as an artifact can hold them: the empty one, one and two bytes,
\* with and without an 'm', and longer ones.
Tokens ==
    { <<>>, <<"a">>, <<"m">>, <<"a", "b">>, <<"m", "a", "b">>, <<"a", "b", "c">>,
      <<"x", "m", "y", "z", "w">> }

\* Bound of the rows and of the columns of the frames copied to the clipboard.
MaxClipSide == 2

\* Frames of one row of MaxClipSide cells at most, every cell a token.
TokenFrames == UNION {[1..1 -> [1..w -> Tokens]] : w \in 1..MaxClipSide}

\* The rasters of at most MaxClipSide rows and columns.
ClipRasters ==
    UNION {[1..h -> [1..w -> Pixels]] : h \in 1..MaxClipSide, w \in 1..MaxClipSide}

\* One-pixel rasters of the greys: every brightness, so every palette glyph.
GreyRasters == {<< << <<v, v, v>> >> >> : v \in 0..255}

\* The frames convert_image makes of these rasters and of the grey rasters, under
\* the keyword's name; the token frames under the
\* name of an artifact.
ClipImages ==
    {PrinterImageData("kw", ConvertRaster(r)) : r \in ClipRasters \cup GreyRasters}
        \cup {PrinterImageData("1_x.cwi", f) : f \in TokenFrames}

\* A Printer over a generator of one image: the image is taken, then copied to
\* the clipboard.
SpecClipInit ==
    /\ \E image \in ClipImages : PrinterNew(<<image>>)
    /\ dir = <<>> /\ frame = <<>> /\ StorageStart
    /\ ConverterIdle
    /\ RestIdle

SpecClipNext ==
    \/ move_to_next_image
    \/ copy_current_image_to_clipboard

SpecClip == SpecClipInit /\ [][SpecClipNext]_vars

\* What a save directory can hold before a save_image of "kw": an artifact
\* saved in second 1 or 2, a directory with the name of the second-1 artifact
\* (empty, or holding a file of that name), another file.
SavedName(now) == get_image_name(<<"k", "w">>, now)

OldFile(now) ==
    [name |-> SavedName(now), kind |-> "file", content |-> <<"o", NL>>]
NameDir ==
    [name |-> SavedName(1), kind |-> "subdir", content |-> <<>>]
FullNameDir ==
    [name |-> SavedName(1), kind |-> "subdir", content |-> <<OldFile(1)>>]
OtherFile ==
    [name |-> <<"t", ".", "t", "x", "t">>, kind |-> "file",
     content |-> <<"a", " ", "b", NL>>]

SaveEntries == {OldFile(1), OldFile(2), NameDir, FullNameDir, OtherFile}

SaveDirectories ==
    {d \in SeqUpTo(SaveEntries, MaxEntries - 1) :
        \A i \in 1..Len(d) : \A j \in 1..Len(d) : i # j => d[i].name # d[j].name}

\* The frames handed to save_image: those of GeneratorImages.
SaveFrames == {img.image_array : img \in GeneratorImages}

\* ImageStorage::new over a directory, then save_image calls as seconds pass.
SpecSaveInit ==
    /\ PrinterIdle
    /\ dir \in SaveDirectories
    /\ frame \in SaveFrames
    /\ StorageStart

SpecSaveNext ==
    \/ SaveImage
    \/ Tick

SpecSave == SpecSaveInit /\ [][SpecSaveNext]_vars

\* What a load directory can hold. Artifacts: g.cwi (2 x 2), r.cwi (3 x 1),
\* m.cwi (second row one cell short), l.cwi (third row one cell long), e.cwi
\* (no line), u.cwi (cannot be opened).
\* Others: t.txt, the hidden file .cwi, and an entry ReadDir fails to read.
GoodFile ==
    [name |-> <<"g", ".", "c", "w", "i">>, kind |-> "file",
     content |-> <<"a", " ", "b", NL, "c", " ", "d", NL>>]
RowsFile ==
    [name |-> <<"r", ".", "c", "w", "i">>, kind |-> "file",
     content |-> <<"x", NL, "y", NL, "z", NL>>]
MismatchFile ==
    [name |-> <<"m", ".", "c", "w", "i">>, kind |-> "file",
     content |-> <<"a", " ", "b", NL, "c", NL>>]
LateMismatchFile ==
    [name |-> <<"l", ".", "c", "w", "i">>, kind |-> "file",
     content |-> <<"x", NL, "y", NL, "z", " ", "w", NL>>]
EmptyFile ==
    [name |-> <<"e", ".", "c", "w", "i">>, kind |-> "file", content |-> <<>>]
UnreadableFile ==
    [name |-> <<"u", ".", "c", "w", "i">>, kind |-> "unreadable", content |-> <<>>]
TextFile ==
    [name |-> <<"t", ".", "t", "x", "t">>, kind |-> "file",
     content |-> <<"a", " ", "b", NL>>]
HiddenFile ==
    [name |-> <<".", "c", "w", "i">>, kind |-> "file", content |-> <<"a", NL>>]
ErrorEntry ==
    [name |-> NoName, kind |-> "error", content |-> <<>>]

DirEntries ==
    {GoodFile, RowsFile, MismatchFile, LateMismatchFile, EmptyFile, UnreadableFile,
     TextFile, HiddenFile, ErrorEntry}

\* A directory: at most MaxEntries entries, no two of the same name.
Directories ==
    {d \in SeqUpTo(DirEntries, MaxEntries) :
        \A i \in 1..Len(d) : \A j \in 1..Len(d) : i # j => d[i] # d[j]}

\* ImageLoadIterator::new over a directory, then next() calls, wrap_into_valid
\* at any point, then next() calls on the ValidImageLoadIterator.
SpecDirInit ==
    /\ PrinterIdle
    /\ dir \in Directories
    /\ frame = <<>>
    /\ StorageStart

SpecDirNext ==
    \/ LoadNext
    \/ Wrap
    \/ ValidNext

SpecDir == SpecDirInit /\ [][SpecDirNext]_vars

\* Printer, storage and converter idle.
CoreIdle ==
    /\ PrinterInit /\ image_generator.items = <<>>
    /\ dir = <<>> /\ frame = <<>> /\ StorageStart
    /\ ConverterIdle

\* --------------------------------------------- ColouredImage::slow_print
\* Bound of the cells (rows * columns) of a frame slow_print reveals.
MaxCells == 4

\* The cells of these frames.
OrderCells == {<<"a">>, <<"b">>}

\* The rectangular frames of at most MaxCells cells, and the two empty ones.
OrderFrames ==
    UNION {[1..h -> [1..w -> OrderCells]] :
             <<h, w>> \in {x \in (1..MaxCells) \X (1..MaxCells) : x[1] * x[2] <= MaxCells}}
      \cup {<<>>, << <<>> >>}

\* get_random_indices' nested loops: (row, col) pushed row by row
Pushed(rows, columns) ==
    [k \in 1..(rows * columns) |-> <<(k - 1) \div columns, (k - 1) % columns>>]

\* indices.shuffle(&mut rng): every order of the same entries
Shuffles(seq) ==
    LET n == Len(seq)
        perms == {q \in [1..n -> 1..n] : \A i, j \in 1..n : i # j => q[i] # q[j]}
    IN  {[i \in 1..n |-> seq[q[i]]] : q \in perms}

\* A faulty get_random_indices: the inner loop runs to rows as well.
get_random_indices_Square(rows, columns) == Shuffles(Pushed(rows, rows))

\* ColouredImage::get_random_indices: the orders it can return
get_random_indices(rows, columns) == Shuffles(Pushed(rows, columns))

\* slow_print up to the blank rows: the guard, the printing order, and the
\* queue of Hide, Clear, MoveTo and the blank rows, which the terminal may refuse
SlowPrintStart ==
    /\ print_pc = "idle"
    /\ UNCHANGED <<pvars, svars, cvars, dvars, fvars, mvars>>
    /\ UNCHANGED <<print_image, terminal>>
    /\ IF IsEmptyImage(print_image)
       THEN /\ print_res' = "EmptyImageError"
            /\ print_pc' = "returned"
            /\ UNCHANGED printing_order
       ELSE \E order \in get_random_indices(Len(print_image), Len(print_image[1])) :
            \E io_ok \in BOOLEAN :
               /\ printing_order' = order
               /\ print_pc' = IF io_ok THEN "writing" ELSE "returned"
               /\ print_res' = IF io_ok THEN "none" ELSE "IoError"

\* One turn of slow_print's loop over printing_order
SlowPrintWrite ==
    /\ print_pc = "writing"
    /\ Len(terminal) < Len(printing_order)
    /\ UNCHANGED <<pvars, svars, cvars, dvars, fvars, mvars>>
    /\ UNCHANGED <<print_image, printing_order>>
    /\ LET row == printing_order[Len(terminal) + 1][1]
           col == printing_order[Len(terminal) + 1][2]
       IN  IF row >= Len(print_image) \/ col >= Len(print_image[row + 1])
           THEN /\ print_res' = "panic"
                /\ print_pc' = "returned"
                /\ UNCHANGED terminal
           ELSE \E io_ok \in BOOLEAN :
                IF io_ok
                THEN /\ terminal' = Append(terminal,
                            [row |-> row, col |-> col,
                             text |-> print_image[row + 1][col + 1]])
                     /\ UNCHANGED <<print_pc, print_res>>
                ELSE /\ print_res' = "IoError"
                     /\ print_pc' = "returned"
                     /\ UNCHANGED terminal

\* slow_print after the loop: MoveTo below the image, newline, Show
SlowPrintFinish ==
    /\ print_pc = "writing"
    /\ Len(terminal) = Len(printing_order)
    /\ UNCHANGED <<pvars, svars, cvars, dvars, fvars, mvars>>
    /\ UNCHANGED <<print_image, printing_order, terminal>>
    /\ \E io_ok \in BOOLEAN :
          /\ print_res' = IF io_ok THEN "Ok" ELSE "IoError"
          /\ print_pc' = "returned"

\* One slow_print of a frame.
SpecSlowPrintInit ==
    /\ CoreIdle
    /\ DownloaderIdle /\ FileSystemIdle /\ MainIdle
    /\ print_image \in OrderFrames
    /\ printing_order = <<>>
    /\ terminal = <<>>
    /\ print_pc = "idle"
    /\ print_res = "none"

SpecSlowPrintNext ==
    \/ SlowPrintStart
    \/ SlowPrintWrite
    \/ SlowPrintFinish

SpecSlowPrint == SpecSlowPrintInit /\ [][SpecSlowPrintNext]_vars

\* ------------------------------------------------------ ImageDownloader
\* Bound of the urls get_urls found.
MaxUrls == 3
\* Bound of the next() calls of a run.
MaxNextCalls == 5

\* The https:// addresses an image element can carry.
Urls == {"https://u", "https://v"}

\* What a request can come to: send() fails, the status is not a success,
\* bytes() fails, or the body arrives.
Responses == {"send fails", "bad status", "body fails", "ok"}

\* A faulty NextIndex: the index stays where it is.
NextIndex_Stay(i) == i

\* self.index += 1
NextIndex(i) == i + 1

\* ImageDownloader::new: get_urls returns at least one url or an error
DownloaderNew ==
    /\ urls \in SeqUpTo(Urls, MaxUrls) \ {<<>>}
    /\ url_index = 0
    /\ dl_pc = "idle"
    /\ dl_calls = 0
    /\ requests = <<>>
    /\ dl_returned = <<>>
    /\ dl_logged = 0

\* ImageDownloader::next is called
DownloaderCall ==
    /\ dl_pc = "idle"
    /\ dl_calls < MaxNextCalls
    /\ dl_pc' = "loop"
    /\ dl_calls' = dl_calls + 1
    /\ UNCHANGED <<urls, url_index, requests, dl_returned, dl_logged>>
    /\ UNCHANGED <<pvars, svars, cvars, wvars, fvars, mvars>>

\* One turn of next()'s while loop: the url at index is requested
DownloaderRequest ==
    /\ dl_pc = "loop"
    /\ url_index < Len(urls)
    /\ url_index' = NextIndex(url_index)
    /\ requests' = Append(requests, [pos |-> url_index, call |-> dl_calls])
    /\ \E response \in Responses :
          IF response = "ok"
          THEN /\ dl_returned' = Append(dl_returned, [some |-> TRUE, pos |-> url_index])
               /\ dl_pc' = "idle"
               /\ UNCHANGED dl_logged
          ELSE /\ dl_logged' = dl_logged + 1
               /\ UNCHANGED <<dl_pc, dl_returned>>
    /\ UNCHANGED <<urls, dl_calls>>
    /\ UNCHANGED <<pvars, svars, cvars, wvars, fvars, mvars>>

\* next()'s while loop ends: None
DownloaderNone ==
    /\ dl_pc = "loop"
    /\ ~(url_index < Len(urls))
    /\ dl_returned' = Append(dl_returned, [some |-> FALSE, pos |-> url_index])
    /\ dl_pc' = "idle"
    /\ UNCHANGED <<urls, url_index, dl_calls, requests, dl_logged>>
    /\ UNCHANGED <<pvars, svars, cvars, wvars, fvars, mvars>>

\* ImageDownloader::new, then next() calls; a call that has started goes on.
SpecDownloaderInit ==
    /\ CoreIdle
    /\ SlowPrintIdle /\ FileSystemIdle /\ MainIdle
    /\ DownloaderNew

SpecDownloaderNext ==
    \/ DownloaderCall
    \/ DownloaderRequest
    \/ DownloaderNone

SpecDownloader ==
    /\ SpecDownloaderInit
    /\ [][SpecDownloaderNext]_vars
    /\ WF_vars(DownloaderRequest \/ DownloaderNone)

\* ---------------------------------------------------- ImageStorage::new
\* Bound of the changes of save_path on the file system in a run.
MaxFsChanges == 2

\* What save_path can be on the file system.
PathKinds == {"directory", "file", "missing"}

\* A faulty is_dir: anything that exists passes.
is_dir_Exists(kind) == kind # "missing"

\* Path::is_dir
is_dir(kind) == kind = "directory"

\* ImageStorage::new
ImageStorageNew ==
    /\ storage' = [res |-> IF is_dir(save_path_kind) THEN "Ok" ELSE "SavePathError",
                   kind |-> save_path_kind]
    /\ lastIter' = "new"
    /\ UNCHANGED <<save_path_kind, fs_changes>>
    /\ UNCHANGED <<dir, clock, frame, saved, dir_iter, wrapped, rawCount, yielded,
                   validOut, log, visits, reads>>
    /\ UNCHANGED <<pvars, cvars, wvars, dvars, mvars>>

\* Another process removes save_path, or puts a file or an empty directory there.
FileSystemChange ==
    /\ fs_changes < MaxFsChanges
    /\ fs_changes' = fs_changes + 1
    /\ \E kind \in PathKinds \ {save_path_kind} : save_path_kind' = kind
    /\ dir' = <<>>
    /\ visits' = <<>>
    /\ reads' = <<>>
    /\ lastIter' = "fs"
    /\ UNCHANGED storage
    /\ UNCHANGED <<clock, frame, saved, dir_iter, wrapped, rawCount, yielded, validOut,
                   log>>
    /\ UNCHANGED <<pvars, cvars, wvars, dvars, mvars>>

\* save_image on the ImageStorage that ImageStorage::new returned
StorageSave ==
    /\ storage.res = "Ok"
    /\ SaveImage

\* A save_path of any kind, ImageStorage::new, save_image calls on its result,
\* and changes of save_path in between.
SpecStorageInit ==
    /\ PrinterInit /\ image_generator.items = <<>>
    /\ ConverterIdle
    /\ SlowPrintIdle /\ DownloaderIdle /\ MainIdle
    /\ save_path_kind \in PathKinds
    /\ storage = [res |-> "none", kind |-> "none"]
    /\ fs_changes = 0
    /\ dir \in IF save_path_kind = "directory" THEN {<<>>, <<OtherFile>>} ELSE {<<>>}
    /\ frame \in SaveFrames
    /\ StorageStart

SpecStorageNext ==
    \/ ImageStorageNew
    \/ FileSystemChange
    \/ StorageSave

SpecStorage == SpecStorageInit /\ [][SpecStorageNext]_vars

\* ------------------------------------- convert_image: the resized raster
\* The widths typed at prompt_for_width: parse::<u32>() takes any u32, 0 too.
PromptWidths == {U32(0, 0), U32(0, 1), U32(0, 2)}

\* The size of the decoded images converted at these widths.
ShapeWidths == {1, 2}
ShapeHeights == {U32(0, 1), U32(0, 2)}

\* The value of a u32 below 2^16.
Small(u) == u[1] + 256 * u[2]

\* img.resize_exact(image_width, height, ..).to_rgb8(): an image of the size
\* asked for; its pixels are the filter's, here all one colour
ResizeExact ==
    /\ convert_pc = "sized"
    /\ target.width[3] = 0 /\ target.width[4] = 0
    /\ target.height[3] = 0 /\ target.height[4] = 0
    /\ resized' = [y \in 1..Small(target.height) |->
                     [x \in 1..Small(target.width) |-> <<255, 128, 0>>]]
    /\ convert_pc' = "rows"
    /\ UNCHANGED <<decoded, target, image_rows, finish_order, converted_image,
                   conv_iterator, conv_images, conv_current, has_any_images,
                   conv_panicked, conv_last>>
    /\ UNCHANGED <<pvars, svars, ovars>>

\* The load directories read beside the conversions.
ShapeDirectories == {<<GoodFile, MismatchFile>>, <<RowsFile, EmptyFile>>, <<TextFile>>}

\* The two sources of a Printer's frames: convert_image of a decoded image at
\* a width typed at the prompt, and ImageLoadIterator::next over a directory.
SpecShapeInit ==
    /\ PrinterInit /\ image_generator.items = <<>>
    /\ RestIdle
    /\ dir \in ShapeDirectories
    /\ frame = <<>>
    /\ StorageStart
    /\ ConverterNew(<<>>)
    /\ decoded \in [original_width : ShapeWidths, original_height : ShapeHeights,
                    image_width : PromptWidths, overflow_checks : BOOLEAN]
    /\ target = [res |-> "none", width |-> <<>>, height |-> <<>>]
    /\ resized = <<>>
    /\ image_rows = <<>>
    /\ finish_order = <<>>
    /\ converted_image = <<>>
    /\ convert_pc = "decoded"

SpecShapeNext ==
    \/ ComputeSize
    \/ ResizeExact
    \/ RowClosures
    \/ Collect
    \/ LoadNext

SpecShape == SpecShapeInit /\ [][SpecShapeNext]_vars

\* ------------------------------------------------------------------ main
\* Bound of the times printer_menu is entered in a run.
MaxEntered == 2
\* Bound of the files in the save directory at an 's' key.
MaxSaves == 1

\* What the Converter hands the Printer in generator mode: the frame of a
\* one-pixel image at width 1, and at width 0.
ConvertedImages ==
    {PrinterImageData("kw", ConvertRaster(<< << <<255, 128, 0>> >> >>)),
     PrinterImageData("kw", << <<>> >>)}

\* What the ValidImageLoadIterator hands the Printer in load mode: a saved
\* frame, and a file of one cell of one byte.
LoadedImages ==
    {PrinterImageData("1_kw.cwi", ConvertRaster(<< << <<255, 128, 0>> >> >>)),
     PrinterImageData("2_kw.cwi", << <<<<"a">>>> >>)}

\* Printer::new in main: the Printer of the menu entered
PrinterRenewed(items) ==
    /\ image_generator' = [items |-> items, pos |-> 0]
    /\ coloured_images' = <<>>
    /\ current_image' = 0
    /\ clipboard' = NoText
    /\ panicked' = FALSE
    /\ calls' = 0
    /\ lastOp' = "none"
    /\ lastRes' = "none"
    /\ lastData' = NoData
    /\ ran' = "none"
    /\ pre' = [current_image |-> 0, len |-> 0, lastOp |-> "none", lastRes |-> "none"]
    /\ onlyNext' = TRUE
    /\ nextCalls' = 0

MainAt(pc, md, h, k, lg, ex, en) ==
    /\ main_pc' = pc
    /\ mode' = md
    /\ handler' = h
    /\ key' = k
    /\ logged' = lg
    /\ exit_by' = ex
    /\ entered' = en

\* The process is gone: a panic unwinds main, or main returns the error.
MainFails(k, how) == MainAt("failed", mode, "idle", k, logged, how, entered)

\* main's Select::interact().unwrap() (or settings_menu's) on a terminal that
\* fails
MainSelectFails ==
    /\ main_pc = "select"
    /\ MainFails("none", "panic")
    /\ UNCHANGED <<pvars, svars, cvars, wvars, dvars, fvars>>

\* Selection 0 or 1: ImageStorage::new, then (1) to_load_iterator, then
\* Printer::new and printer_menu; an Err of either is logged
MainEnter(md, images) ==
    /\ main_pc = "select"
    /\ entered < MaxEntered
    /\ \E load_ok \in BOOLEAN :
       IF is_dir(save_path_kind) /\ (md = "load" => load_ok)
       THEN /\ \E items \in SeqUpTo(images, MaxK) : PrinterRenewed(items)
            /\ MainAt("printer_menu", md, "idle", "none", "none", exit_by, entered + 1)
       ELSE /\ MainAt("select", mode, "idle", "none", "error", exit_by, entered)
            /\ UNCHANGED pvars
    /\ UNCHANGED <<svars, cvars, wvars, dvars, fvars>>

MainGenerator == MainEnter("generator", ConvertedImages)

MainLoad == MainEnter("load", LoadedImages)

\* Selection 2: settings_menu; a new save location may be anything
MainSettings ==
    /\ main_pc = "select"
    /\ \E kind \in PathKinds \ {save_path_kind} : save_path_kind' = kind
    /\ dir' = <<>> /\ visits' = <<>> /\ reads' = <<>>
    /\ MainAt("select", mode, "idle", "none", "none", exit_by, entered)
    /\ UNCHANGED <<clock, frame, saved, dir_iter, wrapped, rawCount, yielded,
                   validOut, log, lastIter>>
    /\ UNCHANGED <<storage, fs_changes>>
    /\ UNCHANGED <<pvars, cvars, wvars, dvars>>

\* Selection 3: exit(0)
MainQuit ==
    /\ main_pc = "select"
    /\ MainAt("exited", mode, "idle", "none", logged, "Quit", entered)
    /\ UNCHANGED <<pvars, svars, cvars, wvars, dvars, fvars>>

\* The handler is free to take a key.
AwaitsKey == main_pc = "printer_menu" /\ handler = "idle"

\* printer_menu: event::poll(..)? or event::read()? returns an Err, which
\* printer_menu returns and main's ? returns in turn
MenuEventFails ==
    /\ AwaitsKey
    /\ MainFails(key, "io error")
    /\ UNCHANGED <<pvars, svars, cvars, wvars, dvars, fvars>>

\* The handler after a Printer call that moved the cursor: handle_and_print
\* logs an Err and prints on Ok; a panic ends the process
AfterMove(k) ==
    IF panicked' THEN MainFails(k, "panic")
    ELSE IF lastRes' = "Ok"
    THEN MainAt(main_pc, mode, "print", k, "none", exit_by, entered)
    ELSE MainAt(main_pc, mode, "idle", k, "error", exit_by, entered)

\* The handler after its last call: an Err is logged
AfterLast(k, success) ==
    IF panicked' THEN MainFails(k, "panic")
    ELSE MainAt(main_pc, mode, "idle", k,
                IF lastRes' = "Ok" THEN success ELSE "error", exit_by, entered)

\* 'b' or 'B': handle_and_print(printer.move_to_previous_image()), first call
KeyB ==
    /\ AwaitsKey
    /\ Printer_move_to_previous_image
    /\ AfterMove("b")
    /\ UNCHANGED <<svars, cvars, wvars, dvars, fvars>>

\* 'n' or 'N': handle_and_print(printer.move_to_next_image()), first call
KeyN ==
    /\ AwaitsKey
    /\ Printer_move_to_next_image
    /\ AfterMove("n")
    /\ UNCHANGED <<svars, cvars, wvars, dvars, fvars>>

\* handle_and_print's closure for Ok: printer.print_current_image()
HandlerPrint ==
    /\ main_pc = "printer_menu"
    /\ handler = "print"
    /\ Printer_print_current_image
    /\ AfterLast(key, "none")
    /\ UNCHANGED <<svars, cvars, wvars, dvars, fvars>>

\* 'c' or 'C': printer.copy_current_image_to_clipboard()
KeyC ==
    /\ AwaitsKey
    /\ Printer_copy_current_image_to_clipboard
    /\ AfterLast("c", "success")
    /\ UNCHANGED <<svars, cvars, wvars, dvars, fvars>>

\* 's' or 'S' in generator mode: printer.get_current_image_data(), first call
KeyS ==
    /\ AwaitsKey
    /\ mode = "generator"
    /\ Len(dir) < MaxSaves
    /\ Printer_get_current_image_data
    /\ IF panicked' THEN MainFails("s", "panic")
       ELSE IF lastRes' = "Ok"
       THEN MainAt(main_pc, mode, "save", "s", "none", exit_by, entered)
       ELSE MainAt(main_pc, mode, "idle", "s", "error", exit_by, entered)
    /\ frame' = IF lastRes' = "Ok" THEN lastData'.image_array ELSE frame
    /\ UNCHANGED <<dir, clock, saved, dir_iter, wrapped, rawCount, yielded,
                   validOut, log, visits, reads, lastIter>>
    /\ UNCHANGED <<cvars, wvars, dvars, fvars>>

\* generator_menu_handler's save_image(image_name, image_array)
HandlerSave ==
    /\ main_pc = "printer_menu"
    /\ handler = "save"
    /\ Storage_save_image(<<"k", "w">>)
    /\ MainAt(main_pc, mode, "idle", key,
              IF saved'.res = "Ok" THEN "success" ELSE "error", exit_by, entered)
    /\ UNCHANGED <<frame, pvars, cvars, wvars, dvars, fvars>>

\* 'q' or 'Q': the handler returns false, printer_menu returns Ok and main
\* drops the Printer
KeyQ ==
    /\ AwaitsKey
    /\ MainAt("select", "none", "idle", "q", "none", exit_by, entered)
    /\ PrinterRenewed(<<>>)
    /\ UNCHANGED <<svars, cvars, wvars, dvars, fvars>>

\* main from its first Select on.
SpecMainInit ==
    /\ PrinterInit /\ image_generator.items = <<>>
    /\ dir = <<>> /\ frame = <<>> /\ StorageStart
    /\ ConverterIdle
    /\ SlowPrintIdle /\ DownloaderIdle
    /\ save_path_kind \in PathKinds
    /\ storage = [res |-> "none", kind |-> "none"]
    /\ fs_changes = 0
    /\ main_pc = "select"
    /\ mode = "none"
    /\ handler = "idle"
    /\ key = "none"
    /\ logged = "none"
    /\ exit_by = "none"
    /\ entered = 0

SpecMainNext ==
    \/ MainSelectFails
    \/ MainGenerator
    \/ MainLoad
    \/ MainSettings
    \/ MainQuit
    \/ MenuEventFails
    \/ KeyB
    \/ KeyN
    \/ HandlerPrint
    \/ KeyC
    \/ KeyS
    \/ HandlerSave
    \/ KeyQ

SpecMain == SpecMainInit /\ [][SpecMainNext]_vars

\* ------------------------------------------------------- Printer: claims
\* The (name, cells) of every materialized image, render flags left out.
Materialized(list) ==
    [i \in 1..Len(list) |-> PrinterImageData(list[i].image_name, list[i].image_array)]

\* C2: a successful move_to_previous_image immediately followed by
\* move_to_next_image: the second call succeeds, the cursor is back where it was,
\* the list is unchanged and the generator is not polled; and move_to_next_image
\* never polls the generator while current_image < len - 1.
C2_RevisitPullsNothing ==
    [][ /\ (lastOp = "prev" /\ lastRes = "Ok" /\ lastOp' = "next")
            => /\ lastRes' = "Ok"
               /\ current_image' = pre.current_image
               /\ coloured_images' = coloured_images
               /\ calls' = calls
               /\ image_generator' = image_generator
        /\ (lastOp' = "next" /\ Len(coloured_images) > 0
                /\ current_image < Len(coloured_images) - 1)
            => /\ calls' = calls
               /\ image_generator' = image_generator ]_vars

C2_Witness ==
    /\ lastOp = "next" /\ lastRes = "Ok"
    /\ pre.lastOp = "prev" /\ pre.lastRes = "Ok"
    /\ current_image = 1 /\ Len(coloured_images) = 2

\* C3: a generator of exactly K >= 1 items and only move_to_next_image calls:
\* the i-th of the first K calls succeeds and leaves the cursor on the i-th pulled
\* image (index i - 1), the (K+1)-th fails with NoImageLeftError.
C3_FirstKThenEnd ==
    (onlyNext /\ lastOp = "next" /\ Len(image_generator.items) >= 1) =>
        LET K == Len(image_generator.items)
        IN  /\ nextCalls <= K =>
                /\ lastRes = "Ok"
                /\ current_image = nextCalls - 1
                /\ Len(coloured_images) = nextCalls
                /\ Materialized(coloured_images)[nextCalls] = image_generator.items[nextCalls]
            /\ nextCalls = K + 1 =>
                /\ lastRes = "NoImageLeftError"
                /\ current_image = K - 1
                /\ Len(coloured_images) = K

C3_Witness ==
    /\ onlyNext /\ lastOp = "next" /\ lastRes = "NoImageLeftError"
    /\ Len(image_generator.items) = 2 /\ nextCalls = 3

\* C4: after any sequence of Printer calls, successful or failing, a non-empty
\* coloured_images has 0 <= current_image < coloured_images.len().
C4_CursorValid ==
    Len(coloured_images) > 0 =>
        (0 <= current_image /\ current_image < Len(coloured_images))

C4_Witness ==
    /\ Len(coloured_images) = 2 /\ current_image = 1
    /\ lastOp = "next" /\ lastRes = "NoImageLeftError"
    /\ pre.lastOp = "copy" /\ pre.lastRes = "ClipboardError"

\* C5: coloured_images only grows at its end: each state of the list is a
\* prefix of the next (names and cells), and it always holds exactly the items
\* the generator has returned as Some, in the order it returned them.
C5_AppendOnly ==
    [][ /\ IsPrefix(Materialized(coloured_images), Materialized(coloured_images'))
        /\ Len(coloured_images') = image_generator'.pos
        /\ Materialized(coloured_images')
             = SubSeq(image_generator'.items, 1, image_generator'.pos)
        /\ image_generator'.items = image_generator.items
        /\ image_generator'.pos >= image_generator.pos ]_vars

C5_Witness ==
    /\ Len(coloured_images) = 2 /\ pre.len = 1 /\ lastOp = "next"
    /\ Materialized(coloured_images)[1] # Materialized(coloured_images)[2]

\* C6: move_to_next_image at the frontier or on an empty list polls the
\* generator exactly once; on None it fails, with NoImagesRegisteredError on an
\* empty list and NoImageLeftError otherwise, and leaves cursor and list as they
\* were, each time it is repeated.
C6_FrontierPollsOnce ==
    [][ (lastOp' = "next"
            /\ (Len(coloured_images) = 0 \/ current_image = Len(coloured_images) - 1))
        => /\ calls' = calls + 1
           /\ image_generator.pos = Len(image_generator.items)
                => /\ lastRes' = IF Len(coloured_images) = 0
                                 THEN "NoImagesRegisteredError" ELSE "NoImageLeftError"
                   /\ current_image' = current_image
                   /\ coloured_images' = coloured_images
                   /\ image_generator' = image_generator ]_vars

C6_Witness ==
    /\ lastOp = "next" /\ lastRes = "NoImagesRegisteredError"
    /\ pre.lastOp = "next" /\ pre.lastRes = "NoImagesRegisteredError"
    /\ calls = 2 /\ Len(coloured_images) = 0

\* C7: move_to_previous_image fails with NoImagesRegisteredError on an empty
\* list and with the distinct NoImageLeftError at index 0, cursor and list
\* unchanged; otherwise it lowers the cursor by one and changes nothing else; it
\* never polls the generator; right after the first successful advance it fails
\* with NoImageLeftError.
C7_Retreat ==
    [][ lastOp' = "prev" =>
          /\ Len(coloured_images) = 0 =>
                /\ lastRes' = "NoImagesRegisteredError"
                /\ current_image' = current_image
          /\ (Len(coloured_images) > 0 /\ current_image = 0) =>
                /\ lastRes' = "NoImageLeftError"
                /\ lastRes' # "NoImagesRegisteredError"
                /\ current_image' = current_image
          /\ (Len(coloured_images) > 0 /\ current_image > 0) =>
                /\ lastRes' = "Ok"
                /\ current_image' = current_image - 1
          /\ (lastOp = "next" /\ lastRes = "Ok" /\ Len(coloured_images) = 1) =>
                lastRes' = "NoImageLeftError"
          /\ UNCHANGED <<coloured_images, image_generator, calls, clipboard>> ]_vars

C7_Witness ==
    /\ lastOp = "prev" /\ lastRes = "NoImageLeftError"
    /\ pre.lastOp = "next" /\ pre.lastRes = "Ok" /\ pre.len = 1
    /\ Len(coloured_images) = 1 /\ current_image = 0

\* C8: get_current_image_data fails with NoImagesRegisteredError exactly when
\* the generator has never returned an image; otherwise it returns the name and
\* the cells of the image at index current_image; it changes neither cursor,
\* list, render flags nor generator.
C8_CurrentData ==
    [][ lastOp' = "get" =>
          /\ (lastRes' = "NoImagesRegisteredError") <=> (image_generator.pos = 0)
          /\ image_generator.pos > 0 =>
                /\ lastRes' = "Ok"
                /\ lastData' = Materialized(coloured_images)[current_image + 1]
          /\ UNCHANGED <<coloured_images, current_image, image_generator, calls,
                         clipboard>> ]_vars

C8_Witness ==
    /\ lastOp = "get" /\ lastRes = "Ok"
    /\ Len(coloured_images) = 2 /\ current_image = 0
    /\ lastData = Materialized(coloured_images)[1]
    /\ lastData # Materialized(coloured_images)[2]

\* ------------------------------------------------- ImageStorage: claims
\* C1: a frame of convert_image saved with save_image and loaded from the
\* written file comes back Ok and identical: same rows, same cells per row, same
\* cell token at every place.
C1_RoundTrip ==
    \A i \in 1..Len(yielded) :
        yielded[i].path \in saved.returned =>
            /\ yielded[i].res = "Ok"
            /\ yielded[i].image.image_array = frame

\* The artifact names of DirEntries whose extension is cwi.
CwiNames == {GoodFile.name, RowsFile.name, MismatchFile.name, LateMismatchFile.name,
             EmptyFile.name, UnreadableFile.name}

HasCwiName(entry) == entry.name \in CwiNames

PathOf(items) == [i \in 1..Len(items) |-> items[i].path]
NameOf(entries) == [i \in 1..Len(entries) |-> entries[i].name]
ResOf(items) == [i \in 1..Len(items) |-> items[i].res]
HasRes(items, res) == {i \in 1..Len(items) : items[i].res = res}

\* C9: ImageLoadIterator yields one item, Ok or Err, for each entry whose
\* extension is cwi and none for any other entry; an Err item does not end the
\* iteration: None comes only when every entry has been handed out; of two
\* artifacts, one with a row-width mismatch, it yields one Ok and one LoadError.
C9_OneItemPerArtifact ==
    ~wrapped =>
        /\ PathOf(yielded) = NameOf(SelectSeq(SubSeq(dir, 1, dir_iter), HasCwiName))
        /\ lastIter = "None" =>
              /\ dir_iter = Len(dir)
              /\ PathOf(yielded) = NameOf(SelectSeq(dir, HasCwiName))
              /\ (Len(dir) = 2 /\ {dir[1], dir[2]} = {GoodFile, MismatchFile}) =>
                    /\ Len(yielded) = 2
                    /\ Cardinality(HasRes(yielded, "Ok")) = 1
                    /\ Cardinality(HasRes(yielded, "LoadError")) = 1

C9_Witness ==
    /\ ~wrapped /\ lastIter = "None"
    /\ dir = <<MismatchFile, TextFile, GoodFile>>
    /\ ResOf(yielded) = <<"LoadError", "Ok">>

ImageOf(items) == [i \in 1..Len(items) |-> items[i].image]
IsOkItem(item) == item.res = "Ok"
IsErrItem(item) == item.res # "Ok"

\* C10: ValidImageLoadIterator yields exactly the images its ImageLoadIterator
\* yields as Ok, in that order, logs and drops every Err, and returns None
\* exactly when the wrapped iterator does; it is the one ImageLoadIterator moved,
\* so every directory entry is handed out and every file read at most once.
C10_ValidIsFilteredLoad ==
    LET inner == SubSeq(yielded, rawCount + 1, Len(yielded))
    IN  /\ wrapped =>
            /\ validOut = ImageOf(SelectSeq(inner, IsOkItem))
            /\ log = SelectSeq(inner, IsErrItem)
            /\ lastIter = "ValidNone" =>
                  /\ dir_iter = Len(dir)
                  /\ PathOf(yielded) = NameOf(SelectSeq(dir, HasCwiName))
            /\ lastIter = "ValidSome" =>
                  /\ Len(inner) > 0
                  /\ inner[Len(inner)].res = "Ok"
        /\ \A i \in 1..Len(dir) : visits[i] <= 1 /\ reads[i] <= 1

C10_Witness ==
    /\ wrapped /\ lastIter = "ValidNone"
    /\ dir = <<GoodFile, MismatchFile, RowsFile>>
    /\ rawCount = 1
    /\ Len(validOut) = 1 /\ validOut[1].image_name = RowsFile.name
    /\ ResOf(log) = <<"LoadError">>

\* ------------------------------------------------- ImageStorage: claims
\* The cells of a line: one more than the single spaces in it.
CellCount(line) == Len(Places(line, CELL_SEPARATOR)) + 1

\* Every line of the content has as many cells as the first.
UniformWidth(content) ==
    \A i \in 1..Len(Lines(content)) :
        CellCount(Lines(content)[i]) = CellCount(Lines(content)[1])

\* A file that can be read and has a line.
ReadableNonEmpty(entry) == entry.kind = "file" /\ Len(Lines(entry.content)) > 0

\* C11: for a readable cwi file with at least one line, load_image returns Ok
\* exactly when every line has as many single-space separated cells as the
\* first; otherwise the file fails as a whole with a LoadError that carries the
\* file's own path and no frame; a frame returned Ok has a row for every line,
\* at least one, and all its rows have the cell count of the first.
C11_WidthCheck ==
    \A i \in 1..Len(yielded) : \A j \in 1..Len(dir) :
        (dir[j].name = yielded[i].path /\ ReadableNonEmpty(dir[j])) =>
            /\ yielded[i].res = "Ok" <=> UniformWidth(dir[j].content)
            /\ ~UniformWidth(dir[j].content) =>
                  /\ yielded[i].res = "LoadError"
                  /\ yielded[i].path = dir[j].name
                  /\ yielded[i].image = NoData
            /\ yielded[i].res = "Ok" =>
                  LET rows == yielded[i].image.image_array
                  IN  /\ Len(rows) >= 1
                      /\ Len(rows) = Len(Lines(dir[j].content))
                      /\ \A r \in 1..Len(rows) :
                            Len(rows[r]) = CellCount(Lines(dir[j].content)[1])

C11_Witness ==
    /\ dir = <<LateMismatchFile, GoodFile, MismatchFile>>
    /\ ResOf(yielded) = <<"LoadError", "Ok", "LoadError">>
    /\ yielded[1].path = LateMismatchFile.name
    /\ Len(yielded[2].image.image_array) = 2

\* Every file at or below the directory d: its path and what it holds.
RECURSIVE FilesBelow(_, _)
FilesBelow(d, at) ==
    UNION {IF d[i].kind = "file"
           THEN {[path |-> Append(at, d[i].name), content |-> d[i].content]}
           ELSE IF d[i].kind = "subdir"
           THEN FilesBelow(d[i].content, Append(at, d[i].name))
           ELSE {}
             : i \in 1..Len(d)}

\* C12: no save_image call, ending Ok or with an error, overwrites or truncates
\* a file that exists: every file of the directory before the call is there
\* after it, at its path, with the content it had.
C12_NoOverwrite ==
    [][lastIter' = "save" => FilesBelow(dir, <<>>) \subseteq FilesBelow(dir', <<>>)]_vars

\* A save_image that found its candidate path taken by a file, and that file
\* as it was.
C12_Witness ==
    /\ lastIter = "save"
    /\ saved.waits >= 1
    /\ saved.io_ok
    /\ Len(dir) >= 1 /\ dir[1] = OldFile(1) /\ saved.path[1] = OldFile(1).name
    /\ frame # <<>>

\* The file save_image is to leave behind for the frame: a line for every row,
\* in row order, the row's cells joined by one space; nothing before or after.
HoldsFrame(content, image_array) ==
    /\ Len(Lines(content)) = Len(image_array)
    /\ \A r \in 1..Len(image_array) :
          Lines(content)[r] = Join(image_array[r], CELL_SEPARATOR)
    /\ Len(content) = 0 \/ content[Len(content)] = NL

\* C13: a save_image whose candidate path exists (and that the OS lets create
\* and write) succeeds after the wait: a new file directly in the directory
\* holds the frame, and Ok carries the name of that file.
C13_CollisionRetry ==
    (lastIter = "save" /\ saved.waits >= 1 /\ saved.io_ok) =>
        /\ saved.res = "Ok"
        /\ Len(saved.path) = 1
        /\ saved.name = saved.path[1]
        /\ \E i \in 1..Len(dir) :
              /\ dir[i].name = saved.name
              /\ dir[i].kind = "file"
              /\ HoldsFrame(dir[i].content, frame)

\* C14: after save_image returned Ok(n), n is <seconds>_<name>.cwi, the
\* directory holds a file n, and the file holds the frame: a line per row in
\* row order, cells joined by one space, no other line.
C14_SavedFile ==
    (lastIter = "save" /\ saved.res = "Ok") =>
        /\ \E t \in 0..MaxClock : saved.name = get_image_name(<<"k", "w">>, t)
        /\ \E i \in 1..Len(dir) :
              /\ dir[i].name = saved.name
              /\ dir[i].kind = "file"
              /\ HoldsFrame(dir[i].content, frame)

\* --------------------------------------------------- Converter: claims
\* C15: for a decoded image of original_width x original_height and a width
\* image_width, convert_image asks for (and so returns) image_width cells per
\* row and max(1, floor(original_height * image_width / original_width)) rows,
\* the value of the formula over the integers, whatever the product's size.
C15_Height ==
    convert_pc \in {"sized", "panicked"} =>
        /\ target.res = "Ok"
        /\ target.width = decoded.image_width
        /\ target.height \o <<0, 0, 0, 0>>
             = Max1(Quotient(Product(decoded.original_height, decoded.image_width),
                             decoded.original_width))

\* C16: bytes that are no image make the advance that pulled them end with a
\* DecodeFailure error value: the process goes on, the cache and the cursor are
\* as before the call, and the next advance can pull again.
C16_DecodeFailure ==
    (conv_last.op = "next" /\ conv_last.pulled = "junk") =>
        /\ conv_last.res = "DecodeFailure"
        /\ ~conv_panicked
        /\ conv_images = conv_last.images
        /\ conv_current = conv_last.current

\* The glyph of a cell: the character before the closing ESC[0m; its place in
\* the palette, from 0.
GlyphOf(cell) == cell[Len(cell) - 4]
PaletteIndex(glyph) == (CHOOSE i \in 1..Len(ASCII_CHARS) : ASCII_CHARS[i] = glyph) - 1

Distance(a, b) == IF a >= b THEN a - b ELSE b - a

\* C17: every cell of a converted raster is ESC[38;2;R;G;Bm, a glyph, ESC[0m
\* with the pixel's R, G, B; the glyph's palette index is
\* floor((brightness * 12 + 127) / 255) for brightness floor((R + G + B) / 3):
\* within 0..12, the integer nearest to brightness * 12 / 255, not above the
\* index of the next brightness, '@' for brightness 0 and ' ' for 255.
C17_Glyph ==
    convert_pc = "done" =>
        \A y \in 1..Len(resized) : \A x \in 1..Len(resized[y]) :
            LET pixel == resized[y][x]
                cell == converted_image[y][x]
                brightness == (pixel[1] + pixel[2] + pixel[3]) \div 3
                index == PaletteIndex(GlyphOf(cell))
            IN  /\ cell = <<ESC, "[", "3", "8", ";", "2", ";">> \o Dec(pixel[1])
                            \o <<";">> \o Dec(pixel[2]) \o <<";">> \o Dec(pixel[3])
                            \o <<"m", GlyphOf(cell), ESC, "[", "0", "m">>
                /\ GlyphOf(cell) \in {ASCII_CHARS[i] : i \in 1..Len(ASCII_CHARS)}
                /\ index = (brightness * 12 + 127) \div 255
                /\ index \in 0..12
                /\ 2 * Distance(brightness * 12, index * 255) < 255
                /\ brightness < 255 =>
                      index <= CharIndex(<<brightness + 1, brightness + 1, brightness + 1>>)
                /\ brightness = 0 => GlyphOf(cell) = "@"
                /\ brightness = 255 => GlyphOf(cell) = " "

\* A converted pixel of brightness 127: between the indices 5 and 6, rounded
\* to 6, the glyph '*'.
C17_Witness ==
    /\ convert_pc = "done"
    /\ resized = << << <<127, 0, 255>> >> >>
    /\ GlyphOf(converted_image[1][1]) = "*"

\* C18: whatever the order in which the rows' closures finish, row i of the
\* frame convert_image returns is the conversion of row i of the resized
\* raster: the frame is that of converting the rows one after the other.
C18_OrderedJoin ==
    convert_pc = "done" =>
        /\ Len(converted_image) = Len(resized)
        /\ \A i \in 1..Len(resized) : converted_image[i] = RowOf(resized, i)
        /\ converted_image = ConvertRaster(resized)

\* The last row finished first, and the rows differ.
C18_Witness ==
    /\ convert_pc = "done"
    /\ finish_order = <<3, 1, 2>>
    /\ resized[1] # resized[3]

\* ------------------------------------------------ ColouredImage: claims
\* The flag of the image at place i of the list, FALSE for one not yet there.
FlagAt(list, i) == i <= Len(list) /\ list[i].is_rendered

\* C19: is_rendered is false on a new image, becomes true only in a print of
\* that image whose slow_print returned Ok, and never false again; print runs
\* slow_print on an image whose flag is false and only instant_print on one
\* whose flag is true; so slow_print completes at most once per image, and no
\* other operation, the moves of the cursor among them, changes a flag.
C19_OneShotReveal ==
    [][ /\ \A i \in 1..Len(coloured_images') :
              /\ FlagAt(coloured_images, i) => coloured_images'[i].is_rendered
              /\ coloured_images'[i].is_rendered <=> coloured_images'[i].reveals = 1
              /\ coloured_images'[i].reveals <= 1
              /\ (coloured_images'[i].is_rendered /\ ~FlagAt(coloured_images, i)) =>
                    /\ lastOp' = "print" /\ lastRes' = "Ok" /\ ran' = "slow_print"
                    /\ i = current_image' + 1
        /\ (lastOp' = "print" /\ Len(coloured_images') > 0) =>
              ran' = IF FlagAt(coloured_images, current_image' + 1)
                     THEN "instant_print" ELSE "slow_print"
        /\ lastOp' # "print" =>
              /\ ran' = "none"
              /\ \A i \in 1..Len(coloured_images) :
                    coloured_images'[i].is_rendered = coloured_images[i].is_rendered
      ]_vars

\* An image revealed once is printed again after a move away and back: the
\* instant redraw; the other image has not been revealed.
C19_Witness ==
    /\ lastOp = "print" /\ lastRes = "Ok" /\ ran = "instant_print"
    /\ pre.lastOp = "prev" /\ pre.lastRes = "Ok"
    /\ Len(coloured_images) = 2 /\ current_image = 0
    /\ coloured_images[1].reveals = 1
    /\ ~coloured_images[2].is_rendered

\* C20: a print of an image with no row, or with no cell in its first row,
\* fails with EmptyImageError whenever it is called: slow_print is what runs,
\* never instant_print; the image's cells are as before and its flag stays
\* false.
C20_EmptyImage ==
    [][ /\ (lastOp' = "print" /\ Len(coloured_images') > 0) =>
              LET img == coloured_images'[current_image' + 1]
              IN  (Len(img.image_array) = 0 \/ Len(img.image_array[1]) = 0) =>
                      /\ lastRes' = "EmptyImageError"
                      /\ ran' = "slow_print"
                      /\ ~img.is_rendered
        /\ \A i \in 1..Len(coloured_images') :
              LET img == coloured_images'[i]
              IN  /\ (Len(img.image_array) = 0 \/ Len(img.image_array[1]) = 0) =>
                        ~img.is_rendered
                  /\ i <= Len(coloured_images) =>
                        img.image_array = coloured_images[i].image_array
      ]_vars

\* The image of one row without cells, printed a second time, fails again.
C20_Witness ==
    /\ lastOp = "print" /\ lastRes = "EmptyImageError"
    /\ pre.lastOp = "print" /\ pre.lastRes = "EmptyImageError"
    /\ coloured_images[current_image + 1].image_array = << <<>> >>

\* The glyphs of a row of converted cells, in column order.
RECURSIVE GlyphsOf(_)
GlyphsOf(row) == IF Len(row) = 0 THEN <<>> ELSE <<GlyphOf(row[1])>> \o GlyphsOf(Tail(row))

\* The lines joined by single newlines, none after the last.
RECURSIVE PlainText(_)
PlainText(rows) ==
    IF Len(rows) = 0 THEN <<>>
    ELSE IF Len(rows) = 1 THEN GlyphsOf(rows[1])
    ELSE GlyphsOf(rows[1]) \o <<NL>> \o PlainText(Tail(rows))

LacksDelimiter(cell) ==
    \A i \in 1..Len(cell) : i <= Len(cell) - 2 => cell[i] # "m"

\* C22: for a frame with cells and any cell tokens, get_clipboard_version ends
\* with Ok or an error value, never a panic, and with InvalidImageError when a
\* cell lacks the delimiter 'm' (ClipboardError when the clipboard failed
\* before).
C22_MalformedCell ==
    (lastOp = "copy" /\ Len(coloured_images) = 1) =>
        /\ lastRes # "panic"
        /\ ~panicked
        /\ (\E x \in 1..Len(coloured_images[1].image_array[1]) :
                LacksDelimiter(coloured_images[1].image_array[1][x])) =>
              lastRes \in {"InvalidImageError", "ClipboardError"}

\* -------------------------------------------- Printer: effects of errors
\* The last call is a print that failed with EmptyImageError or a copy that
\* failed with EmptyImageError or InvalidImageError.
FrameFailure ==
    \/ lastOp' = "print" /\ lastRes' = "EmptyImageError"
    \/ lastOp' = "copy" /\ lastRes' \in {"EmptyImageError", "InvalidImageError"}

\* C23 as stated: after a print_current_image that failed with EmptyImageError
\* or a copy_current_image_to_clipboard that failed with EmptyImageError or
\* InvalidImageError, the list and the cursor are what they were before the
\* call, the empty list included.
C23_FailureLeavesCache ==
    [][ FrameFailure =>
          /\ coloured_images' = coloured_images
          /\ current_image' = current_image ]_vars

\* C23 amended: as stated when the list holds an image before the call; a
\* print_current_image on the empty list has taken one image from the
\* generator before it failed: the list then holds that image alone, not
\* revealed, and the cursor is on it.
C23_FailureLeavesCacheButFirstPull ==
    [][ FrameFailure =>
          IF Len(coloured_images) > 0
          THEN /\ coloured_images' = coloured_images
               /\ current_image' = current_image
          ELSE /\ lastOp' = "print"
               /\ image_generator.pos < Len(image_generator.items)
               /\ coloured_images' =
                    <<ColouredImageNew(
                        image_generator.items[image_generator.pos + 1].image_array, 0,
                        image_generator.items[image_generator.pos + 1].image_name,
                        PrintingRate)>>
               /\ current_image' = 0 ]_vars

\* A print on the empty list that pulled an image without cells and failed.
C23_Witness ==
    /\ lastOp = "print" /\ lastRes = "EmptyImageError"
    /\ pre.len = 0
    /\ Len(coloured_images) = 1 /\ current_image = 0

\* The generator and the list's length.
Pulled == <<image_generator, calls, Len(coloured_images)>>

\* C30 as stated: get_current_image_data, move_to_previous_image,
\* print_current_image and copy_current_image_to_clipboard never call
\* image_generator.next() and never append to the list, whatever the state.
C30_OnlyNextPolls ==
    [][ lastOp' \in {"get", "prev", "print", "copy"} => UNCHANGED Pulled ]_vars

\* C30 amended: get_current_image_data, move_to_previous_image and
\* copy_current_image_to_clipboard never call image_generator.next() and never
\* append; print_current_image neither, unless the list is empty: then it calls
\* next() once and appends the image it gets, if any.
C30_OnlyNextAndFirstPrintPoll ==
    [][ /\ lastOp' \in {"get", "prev", "copy"} => UNCHANGED Pulled
        /\ lastOp' = "print" =>
              IF Len(coloured_images) > 0 THEN UNCHANGED Pulled
              ELSE /\ calls' = calls + 1
                   /\ image_generator'.pos <= image_generator.pos + 1
                   /\ Len(coloured_images') = image_generator'.pos - image_generator.pos
      ]_vars

\* A print on the empty list has pulled the first image and revealed it.
C30_Witness ==
    /\ lastOp = "print" /\ lastRes = "Ok"
    /\ pre.len = 0 /\ pre.lastOp = "none"
    /\ calls = 1 /\ Len(coloured_images) = 1

\* ------------------------------------------------- slow_print: claims
\* The (row, col) of everything written so far.
WrittenAt == {<<terminal[i].row, terminal[i].col>> : i \in 1..Len(terminal)}

\* C26: when slow_print has written a rectangular frame of rows >= 1 and
\* cols >= 1, it has made exactly rows * cols writes, one at every (row, col)
\* of {0..rows-1} x {0..cols-1} and none twice, and every write put the frame's
\* cell of that row and column there; while it writes, no position comes twice
\* and every write is the cell of its position.
C26_RevealOrder ==
    print_pc # "idle" /\ ~IsEmptyImage(print_image) =>
      LET rows == Len(print_image)
          cols == Len(print_image[1])
      IN  /\ Len(printing_order) = rows * cols
          /\ {printing_order[i] : i \in 1..Len(printing_order)}
                = (0..(rows - 1)) \X (0..(cols - 1))
          /\ \A i \in 1..Len(terminal) :
                /\ <<terminal[i].row, terminal[i].col>> = printing_order[i]
                /\ terminal[i].text
                      = print_image[terminal[i].row + 1][terminal[i].col + 1]
          /\ Cardinality(WrittenAt) = Len(terminal)
          /\ print_res = "Ok" =>
                /\ Len(terminal) = rows * cols
                /\ WrittenAt = (0..(rows - 1)) \X (0..(cols - 1))
          /\ print_res # "panic"

\* A frame of two rows and two columns revealed to the end, the last cell first.
C26_Witness ==
    /\ print_res = "Ok"
    /\ Len(print_image) = 2 /\ Len(print_image[1]) = 2
    /\ Len(terminal) = 4
    /\ terminal[1].row = 1 /\ terminal[1].col = 1

\* ---------------------------------------------- ImageDownloader: claims
\* The requests sent by the call-th next().
RequestsOf(call) == {i \in 1..Len(requests) : requests[i].call = call}

\* The urls are requested in list order, each position once; a call returns
\* Some only with the body of its last request, and None only when every url
\* has been requested; a call after a None returns None and sends nothing.
SinglePass ==
    /\ url_index <= Len(urls)
    /\ Len(requests) = url_index
    /\ \A i \in 1..Len(requests) : requests[i].pos = i - 1
    /\ \A c \in 1..Len(dl_returned) :
          /\ dl_returned[c].some =>
                /\ RequestsOf(c) # {}
                /\ \A i \in RequestsOf(c) : requests[i].pos <= dl_returned[c].pos
                /\ \E i \in RequestsOf(c) : requests[i].pos = dl_returned[c].pos
          /\ ~dl_returned[c].some =>
                /\ dl_returned[c].pos = Len(urls)
                /\ \A d \in (c + 1)..Len(dl_returned) :
                      ~dl_returned[d].some /\ RequestsOf(d) = {}
    /\ dl_logged + Cardinality({c \in 1..Len(dl_returned) : dl_returned[c].some})
          = Len(requests)

\* C28: ImageDownloader is single-pass: the index only grows and never passes
\* urls.len(), every url position is requested at most once and in list order,
\* a url whose request, status or body fails is logged and the same call goes
\* on to the next one, a call that returned None is followed only by calls
\* that return None without a request, and every call of next() returns.
C28_SinglePass ==
    /\ []SinglePass
    /\ [][url_index' >= url_index]_vars
    /\ (dl_pc = "loop" ~> dl_pc = "idle")

\* Two urls: the first failed and was skipped in the call that returned the
\* second, and two more calls returned None.
C28_Witness ==
    /\ Len(urls) = 2
    /\ dl_pc = "idle"
    /\ Len(dl_returned) = 3
    /\ dl_returned[1] = [some |-> TRUE, pos |-> 1]
    /\ ~dl_returned[2].some /\ ~dl_returned[3].some
    /\ dl_logged = 1

\* ------------------------------------------------- ImageStorage::new: claims
\* C27: ImageStorage::new returns Ok exactly when save_path is a directory at
\* that time and SavePathError otherwise; save_image never returns
\* SavePathError, leaves what new returned as it is, and returns SaveError when
\* save_path is no directory any more.
C27_PathCheckedAtNew ==
    /\ storage.res # "none" =>
          /\ storage.res = "Ok" <=> storage.kind = "directory"
          /\ storage.res # "Ok" => storage.res = "SavePathError"
    /\ lastIter = "new" => storage.kind = save_path_kind
    /\ saved.res \in {"none", "Ok", "SaveError"}
    /\ lastIter = "save" =>
          /\ storage.res = "Ok"
          /\ save_path_kind # "directory" => saved.res = "SaveError"

\* new succeeded, the directory went away, and save_image returned SaveError.
C27_Witness ==
    /\ storage.res = "Ok"
    /\ save_path_kind = "missing"
    /\ lastIter = "save"
    /\ saved.res = "SaveError"

\* ------------------------------------------------- load_image: row order
\* C29: a frame that load_image returns Ok for a file holds the file's lines in
\* the file's order: row i is the cells of line i, whatever order the
\* par_bridge workers finish in.
C29_RowOrder ==
    \A i \in 1..Len(yielded) : \A j \in 1..Len(dir) :
        (dir[j].name = yielded[i].path /\ yielded[i].res = "Ok") =>
            LET rows == yielded[i].image.image_array
                lines == Lines(dir[j].content)
            IN  /\ Len(rows) = Len(lines)
                /\ \A r \in 1..Len(rows) : rows[r] = Split(lines[r], CELL_SEPARATOR)

\* ------------------------------------------------- frames: their shape
\* At least one row, and every row of the first row's strictly positive length.
WellShaped(image_array) ==
    /\ Len(image_array) >= 1
    /\ Len(image_array[1]) >= 1
    /\ \A r \in 1..Len(image_array) : Len(image_array[r]) = Len(image_array[1])

\* C25: every frame convert_image returns, for any width prompt_for_width
\* accepts, and every frame load_image returns Ok has at least one row and all
\* its rows of one strictly positive number of cells.
C25_FrameShape ==
    /\ convert_pc = "done" => WellShaped(converted_image)
    /\ \A i \in 1..Len(yielded) :
          yielded[i].res = "Ok" => WellShaped(yielded[i].image.image_array)

\* ------------------------------------------------------------ main: claims
\* C24: no error ends the process: whatever a key handler or a menu raises is
\* logged and the loop goes on; printer_menu is left only on the Q key, and the
\* process ends only through the Quit entry.
C24_NoFatalError ==
    /\ [](exit_by \in {"none", "Quit"})
    /\ [](main_pc \in {"select", "printer_menu"} \/ exit_by = "Quit")
    /\ [][ (main_pc = "printer_menu" /\ main_pc' # "printer_menu") => key' = "q" ]_vars

\* ------------------------------------------------- Converter: navigation
\* C31: in the Converter's own navigation, current_image is a valid index
\* whenever has_any_images is true; a move_to_next_image called with the cursor
\* behind the last image moves to the next image already there and pulls
\* nothing from image_iterator; and after a successful move_to_next_image that
\* pulled, current_image is the index of the image just appended.
C31_ConverterNavigation ==
    /\ (has_any_images /\ ~conv_panicked) => conv_current < Len(conv_images)
    /\ (conv_last.op = "next" /\ conv_last.current + 1 < Len(conv_last.images)) =>
          /\ conv_last.res = "Ok"
          /\ conv_last.pulled = "none"
          /\ conv_images = conv_last.images
          /\ conv_current = conv_last.current + 1
    /\ (conv_last.op = "next" /\ conv_last.res = "Ok" /\ conv_last.pulled # "none") =>
          conv_current = Len(conv_images) - 1

====
